---- MODULE Spec2Model ----
(***************************************************************************)
(* A model of the searcher crate: the attribute map of the Searcher, its   *)
(* forward and backward orientation indices (per-document word lists,      *)
(* per-culture word tables, string interner), the mutating entry points,  *)
(* the query executor and the comparator of the thread.                    *)
(*                                                                         *)
(* Characters are one-character strings, a str is a sequence of            *)
(* characters.  Vectors keep the source's 0-based positions: position i    *)
(* of a vector v is v[i + 1].  A word identity (a raw str pointer) is      *)
(* modelled by the content of the interned string it points to.           *)
(***************************************************************************)
EXTENDS Integers, Sequences, FiniteSets, TLC

VARIABLES attrs, forward, backward, passed, last, ops, comparer

vars == <<attrs, forward, backward, passed, last, ops, comparer>>

(***************************************************************************)
(* Bounds and input alphabets.                                             *)
(***************************************************************************)

\* Number of public calls explored from a fresh Searcher.
MaxOps == 5

\* Number of mutating calls that may precede a query in SpecQuery.
MaxQueryOps == 3

\* Largest document id handed to the searcher.
MaxDocId == 1

DocIds == 0..MaxDocId

\* Option<u8>::None for a culture.
NoCulture == -1

\* The attribute registrations offered to set_attribute: name and AttrProps.
AttrInputs ==
    { [name |-> "en",  direction |-> "Forward",  culture |-> 0,         priority |-> 0],
      [name |-> "fr",  direction |-> "Forward",  culture |-> 1,         priority |-> 0],
      [name |-> "any", direction |-> "Forward",  culture |-> NoCulture, priority |-> 1],
      [name |-> "bk",  direction |-> "Backward", culture |-> NoCulture, priority |-> 0],
      [name |-> "bk0", direction |-> "Backward", culture |-> 0,         priority |-> 1] }

AttrNames == { a.name : a \in AttrInputs }

\* A name that is never registered.
UnknownName == "zz"

Names == AttrNames \cup {UnknownName}

\* The attribute values offered to insert_doc_attribute.
Values == { <<>>, <<"A", "b">>, <<"a", " ", "b">> }

(***************************************************************************)
(* Characters and strings.                                                 *)
(***************************************************************************)

\* Unicode scalar value of a character; UTF-8 byte order is scalar order.
CharCode(c) ==
    CASE c = " " -> 32
      [] c = "#" -> 35
      [] c = "*" -> 42
      [] c = "-" -> 45
      [] c = "1" -> 49
      [] c = "2" -> 50
      [] c = "A" -> 65
      [] c = "B" -> 66
      [] c = "a" -> 97
      [] c = "b" -> 98
      [] c = "c" -> 99
      [] c = "°" -> 176
      [] OTHER -> 255

\* Number of UTF-8 bytes of a character.
CharBytes(c) == IF CharCode(c) < 128 THEN 1 ELSE 2

is_alphabetic(c) == c \in {"A", "B", "a", "b", "c"}

is_numeric(c) == c \in {"1", "2"}

lower_no_accent_char(c) ==
    CASE c = "A" -> "a"
      [] c = "B" -> "b"
      [] OTHER -> c

\* str::len: the length in bytes, one per character and one more for each
\* character of two bytes.
ByteLen(s) == Len(s) + Cardinality({ i \in 1..Len(s) : CharBytes(s[i]) = 2 })

RECURSIVE Rev(_)
\* chars().rev().collect()
Rev(s) == IF s = <<>> THEN <<>> ELSE Append(Rev(Tail(s)), Head(s))

RECURSIVE StrCmp(_, _)
\* Ord for str: lexicographic on bytes; -1 Less, 0 Equal, 1 Greater.
StrCmp(a, b) ==
    IF a = <<>> THEN (IF b = <<>> THEN 0 ELSE -1)
    ELSE IF b = <<>> THEN 1
    ELSE IF CharCode(Head(a)) < CharCode(Head(b)) THEN -1
    ELSE IF CharCode(Head(a)) > CharCode(Head(b)) THEN 1
    ELSE StrCmp(Tail(a), Tail(b))

\* str::starts_with
StrStartsWith(s, p) == Len(p) <= Len(s) /\ SubSeq(s, 1, Len(p)) = p

\* str::ends_with
StrEndsWith(s, p) == Len(p) <= Len(s) /\ SubSeq(s, Len(s) - Len(p) + 1, Len(s)) = p

\* str::contains
StrContains(s, p) ==
    \E i \in 0..(Len(s) - Len(p)) : SubSeq(s, i + 1, i + Len(p)) = p

Min(a, b) == IF a < b THEN a ELSE b

Max(a, b) == IF a > b THEN a ELSE b

\* Vec::insert(index, x)
VecInsert(v, index, x) ==
    SubSeq(v, 1, index) \o <<x>> \o SubSeq(v, index + 1, Len(v))

\* Vec::remove(index)
VecRemove(v, index) ==
    SubSeq(v, 1, index) \o SubSeq(v, index + 2, Len(v))

\* Vec::swap_remove(index): the last element takes the freed position.
VecSwapRemove(v, index) ==
    IF index = Len(v) - 1 THEN SubSeq(v, 1, Len(v) - 1)
    ELSE [i \in 1..(Len(v) - 1) |-> IF i = index + 1 THEN v[Len(v)] ELSE v[i]]

\* The set of elements of a vector.
Elems(v) == { v[i] : i \in 1..Len(v) }

RECURSIVE BinSearch(_, _, _, _)
\* slice::binary_search_by: keys is the vector of keys, the result is
\* [ok, index] for Ok(index) / Err(index).
BinSearch(keys, key, left, right) ==
    IF left >= right THEN [ok |-> FALSE, index |-> left]
    ELSE LET mid == left + ((right - left) \div 2)
             c   == StrCmp(keys[mid + 1], key)
         IN  IF c < 0 THEN BinSearch(keys, key, mid + 1, right)
             ELSE IF c > 0 THEN BinSearch(keys, key, left, mid)
             ELSE [ok |-> TRUE, index |-> mid]

(***************************************************************************)
(* StrIntern: a sorted vector of owned strings.                            *)
(***************************************************************************)

StrIntern_new == <<>>

StrIntern_binary_search(intern, s) == BinSearch(intern, s, 0, Len(intern))

StrIntern_insert(intern, s) ==
    LET r == StrIntern_binary_search(intern, s)
    IN  IF r.ok THEN intern ELSE VecInsert(intern, r.index, s)

StrIntern_remove(intern, s) ==
    LET r == StrIntern_binary_search(intern, s)
    IN  IF r.ok THEN VecRemove(intern, r.index) ELSE intern

(***************************************************************************)
(* WordIndex: a vector of rows [word, docs] sorted by word.                *)
(***************************************************************************)

WordIndex_new == <<>>

WordIndexRow_new(word) == [word |-> word, docs |-> {}]

WordIndex_binary_search(wi, word) ==
    BinSearch([i \in 1..Len(wi) |-> wi[i].word], word, 0, Len(wi))

WordIndex_contains_word(wi, word) == WordIndex_binary_search(wi, word).ok

\* insert_word_doc with a new row pushed at the end of the table.
WordIndex_insert_word_doc_pushed(wi, word, doc_id) ==
    LET r == WordIndex_binary_search(wi, word)
    IN  IF r.ok THEN [wi EXCEPT ![r.index + 1].docs = @ \cup {doc_id}]
        ELSE Append(wi, [word |-> word, docs |-> {doc_id}])

\* remove_word_doc with the emptied row left in the table.
WordIndex_remove_word_doc_row_kept(wi, word, doc_id) ==
    LET r == WordIndex_binary_search(wi, word)
    IN  IF r.ok
        THEN [wi |-> [wi EXCEPT ![r.index + 1].docs = @ \ {doc_id}],
              is_empty |-> wi[r.index + 1].docs \ {doc_id} = {}]
        ELSE [wi |-> wi, is_empty |-> TRUE]

\* insert_word_doc on the table alone; the interner side of
\* WordInternResolver::StrInter is applied by the caller (InsertInterned).
WordIndex_insert_word_doc(wi, word, doc_id) ==
    LET r    == WordIndex_binary_search(wi, word)
        rows == IF r.ok THEN wi ELSE VecInsert(wi, r.index, WordIndexRow_new(word))
    IN  [rows EXCEPT ![r.index + 1].docs = @ \cup {doc_id}]

\* remove_word_doc: [wi |-> the table afterwards, is_empty |-> the returned bool]
WordIndex_remove_word_doc(wi, word, doc_id) ==
    LET r == WordIndex_binary_search(wi, word)
    IN  IF r.ok
        THEN LET docs == wi[r.index + 1].docs \ {doc_id}
             IN  IF docs = {}
                 THEN [wi |-> VecRemove(wi, r.index), is_empty |-> TRUE]
                 ELSE [wi |-> [wi EXCEPT ![r.index + 1].docs = docs], is_empty |-> FALSE]
        ELSE [wi |-> wi, is_empty |-> TRUE]

(***************************************************************************)
(* Index: one orientation, the record                                      *)
(*   [direction, docs, per_culture, word_intern].                          *)
(* docs is the vector of Doc, a Doc is the vector of its DocAttr word      *)
(* lists; per_culture is the vector of WordIndex.                          *)
(***************************************************************************)

Index_new(direction) ==
    [direction |-> direction, docs |-> <<>>, per_culture |-> <<>>,
     word_intern |-> StrIntern_new]

\* A lookup that never finds the word in the other lists of the doc.
Doc_contains_word_never(doc, word) == FALSE

\* Doc::contains_word
Doc_contains_word(doc, word) == \E i \in 1..Len(doc) : word \in Elems(doc[i])

\* Doc::ensure_attrs_size
Doc_ensure_attrs_size(doc, attribute_count) ==
    IF Len(doc) < attribute_count
    THEN doc \o [i \in 1..(attribute_count - Len(doc)) |-> <<>>]
    ELSE doc

\* ensure_size(vec, index, Default::default)
ensure_size(docs, index) ==
    IF Len(docs) < index + 1
    THEN docs \o [i \in 1..(index + 1 - Len(docs)) |-> <<>>]
    ELSE docs

\* word_indexes(culture, per_culture): the selected slice, as the half-open
\* range [lo, hi) of positions of per_culture.
word_indexes(culture, per_culture) ==
    IF culture = NoCulture
    THEN [lo |-> 0, hi |-> Len(per_culture)]
    ELSE IF culture + 1 <= Len(per_culture)
         THEN [lo |-> culture, hi |-> culture + 1]
         ELSE [lo |-> 0, hi |-> 0]

RECURSIVE find_next_word_from(_, _, _, _)
\* The loop of find_next_word: pos is the position of the character peeked
\* next; the result is the word found and the position reached.
find_next_word_from(s, pos, kind, word) ==
    IF pos >= Len(s) THEN [word |-> word, pos |-> pos]
    ELSE LET c == s[pos + 1]
         IN  IF is_alphabetic(c)
             THEN IF kind \notin {"Alpha", "Whitespace"}
                  THEN [word |-> word, pos |-> pos]
                  ELSE find_next_word_from(s, pos + 1, "Alpha",
                                           Append(word, lower_no_accent_char(c)))
             ELSE IF is_numeric(c)
             THEN IF kind \notin {"Number", "Whitespace"}
                  THEN [word |-> word, pos |-> pos]
                  ELSE find_next_word_from(s, pos + 1, "Number", Append(word, c))
             ELSE IF c \in {"#", "°"}
             THEN IF kind = "Whitespace"
                  THEN [word |-> Append(word, c), pos |-> pos + 1]
                  ELSE [word |-> word, pos |-> pos]
             ELSE IF word # <<>>
             THEN [word |-> word, pos |-> pos + 1]
             ELSE find_next_word_from(s, pos + 1, kind, word)

find_next_word(s, pos) == find_next_word_from(s, pos, "Whitespace", <<>>)

\* directional_word(word, direction, temp_str)
directional_word(word, direction) ==
    IF direction = "Backward" THEN Rev(word) ELSE word

RECURSIVE insert_static(_, _, _, _, _)
\* insert_word_doc(word, StaticWord(word), doc_id) on the tables at
\* positions lo .. hi - 1
insert_static(per_culture, lo, hi, word, doc_id) ==
    IF lo >= hi THEN per_culture
    ELSE insert_static(
            [per_culture EXCEPT ![lo + 1] = WordIndex_insert_word_doc(@, word, doc_id)],
            lo + 1, hi, word, doc_id)

RECURSIVE insert_doc_word_list_from(_, _, _, _, _, _, _, _)
\* The loop of insert_doc_word_list from position pos of the value.
insert_doc_word_list_from(per_culture, word_intern, sel, value, pos, doc_id, direction, word_list) ==
    LET t == find_next_word(value, pos)
    IN  IF t.word = <<>>
        THEN [per_culture |-> per_culture, word_intern |-> word_intern,
              word_list |-> word_list]
        ELSE IF sel.lo < sel.hi
        THEN LET word   == directional_word(t.word, direction)
                 first  == per_culture[sel.lo + 1]
                 absent == ~WordIndex_contains_word(first, word)
                 intern == IF absent THEN StrIntern_insert(word_intern, word)
                           ELSE word_intern
                 pc1    == [per_culture EXCEPT
                              ![sel.lo + 1] = WordIndex_insert_word_doc(@, word, doc_id)]
                 pc2    == insert_static(pc1, sel.lo + 1, sel.hi, word, doc_id)
             IN  insert_doc_word_list_from(pc2, intern, sel, value, t.pos, doc_id,
                                           direction, Append(word_list, word))
        ELSE insert_doc_word_list_from(per_culture, word_intern, sel, value, t.pos,
                                       doc_id, direction, word_list)

insert_doc_word_list(per_culture, word_intern, sel, value, doc_id, direction) ==
    insert_doc_word_list_from(per_culture, word_intern, sel, value, 0, doc_id,
                              direction, <<>>)

RECURSIVE remove_from_tables(_, _, _, _, _)
\* Folds remove_word_doc over the tables at positions lo .. hi - 1:
\* [per_culture |-> the tables afterwards, all |-> every call returned true]
remove_from_tables(per_culture, lo, hi, word, doc_id) ==
    IF lo >= hi THEN [per_culture |-> per_culture, all |-> TRUE]
    ELSE LET r    == WordIndex_remove_word_doc(per_culture[lo + 1], word, doc_id)
             rest == remove_from_tables([per_culture EXCEPT ![lo + 1] = r.wi],
                                        lo + 1, hi, word, doc_id)
         IN  [per_culture |-> rest.per_culture, all |-> r.is_empty /\ rest.all]

\* Index::remove_word_doc
Index_remove_word_doc(ix, word, doc_id) ==
    LET r == remove_from_tables(ix.per_culture, 0, Len(ix.per_culture), word, doc_id)
    IN  [ix EXCEPT !.per_culture = r.per_culture,
                   !.word_intern = IF r.all THEN StrIntern_remove(@, word) ELSE @]

RECURSIVE Index_remove_words_doc(_, _, _)
\* Index::remove_words_doc
Index_remove_words_doc(ix, words, doc_id) ==
    IF words = {} THEN ix
    ELSE LET w == CHOOSE x \in words : TRUE
         IN  Index_remove_words_doc(Index_remove_word_doc(ix, w, doc_id),
                                    words \ {w}, doc_id)

\* Index::get_doc_attribute_words
Index_get_doc_attribute_words(ix, id, attr_index) ==
    IF id < Len(ix.docs) /\ attr_index < Len(ix.docs[id + 1])
    THEN ix.docs[id + 1][attr_index + 1]
    ELSE <<>>

\* insert_doc_attribute with the new words appended to the doc's word list
\* instead of replacing it.
insert_doc_attribute_words_appended(ix, doc_id, attribute_index, r) ==
    LET ix1   == [ix EXCEPT !.per_culture = r.per_culture,
                            !.word_intern = r.word_intern]
        docs1 == ensure_size(ix.docs, doc_id)
        doc1  == Doc_ensure_attrs_size(docs1[doc_id + 1], attribute_index + 1)
    IN  [ix1 EXCEPT !.docs = [docs1 EXCEPT ![doc_id + 1] =
                         [doc1 EXCEPT ![attribute_index + 1] = @ \o r.word_list]]]

\* Index::insert_doc_attribute after insert_doc_word_list has returned r:
\* the doc's word list is replaced and the words it lost are removed.
insert_doc_attribute_words(ix, doc_id, attribute_index, r) ==
    LET ix1 == [ix EXCEPT !.per_culture = r.per_culture,
                          !.word_intern = r.word_intern]
    IN  IF doc_id >= Len(ix.docs) /\ r.word_list = <<>> THEN ix1
        ELSE
        LET docs1 == ensure_size(ix.docs, doc_id)
            doc   == docs1[doc_id + 1]
        IN  IF attribute_index >= Len(doc) /\ r.word_list = <<>>
            THEN [ix1 EXCEPT !.docs = docs1]
            ELSE
            LET doc1 == Doc_ensure_attrs_size(doc, attribute_index + 1)
                old  == Elems(doc1[attribute_index + 1])
                doc2 == [doc1 EXCEPT ![attribute_index + 1] = r.word_list]
                log  == { w \in old \ Elems(r.word_list) : ~Doc_contains_word(doc2, w) }
            IN  Index_remove_words_doc(
                    [ix1 EXCEPT !.docs = [docs1 EXCEPT ![doc_id + 1] = doc2]],
                    log, doc_id)

\* Index::insert_doc_attribute; attrs is the whole attribute map.
Index_insert_doc_attribute(ix, doc_id, attribute_index, value, attrs_) ==
    IF attribute_index >= Len(attrs_) THEN ix
    ELSE insert_doc_attribute_words(ix, doc_id, attribute_index,
             insert_doc_word_list(ix.per_culture, ix.word_intern,
                 word_indexes(attrs_[attribute_index + 1].culture, ix.per_culture),
                 value, doc_id, ix.direction))

\* remove_doc with the doc taken out of the vector instead of being replaced
\* by an empty doc.
Index_remove_doc_shifting(ix, doc_id) ==
    IF doc_id >= Len(ix.docs) THEN ix
    ELSE LET doc   == ix.docs[doc_id + 1]
             words == UNION { Elems(doc[i]) : i \in 1..Len(doc) }
         IN  Index_remove_words_doc([ix EXCEPT !.docs = VecRemove(@, doc_id)],
                                    words, doc_id)

\* Index::remove_doc
Index_remove_doc(ix, doc_id) ==
    IF doc_id >= Len(ix.docs) THEN ix
    ELSE LET doc   == ix.docs[doc_id + 1]
             words == UNION { Elems(doc[i]) : i \in 1..Len(doc) }
         IN  Index_remove_words_doc([ix EXCEPT !.docs[doc_id + 1] = <<>>],
                                    words, doc_id)

\* The body of the word loop of swap_remove_attr once the word w has been
\* removed from the tables, r being what the removals returned.
swap_remove_word(st, w, fast_delete, r) ==
    [ix  |-> [st.ix EXCEPT
                !.per_culture = r.per_culture,
                !.word_intern = IF r.all /\ fast_delete
                                THEN StrIntern_remove(@, w) ELSE @],
     log |-> IF r.all /\ ~fast_delete THEN st.log \cup {w} ELSE st.log]

RECURSIVE swap_remove_words(_, _, _, _, _, _)
\* The loop of swap_remove_attr over the words of the attribute taken from
\* one doc; st is [ix, log], doc the doc afterwards.
swap_remove_words(st, words, doc, doc_id, sel, fast_delete) ==
    IF words = {} THEN st
    ELSE LET w    == CHOOSE x \in words : TRUE
             rest == words \ {w}
         IN  IF Doc_contains_word(doc, w)
             THEN swap_remove_words(st, rest, doc, doc_id, sel, fast_delete)
             ELSE swap_remove_words(
                      swap_remove_word(st, w, fast_delete,
                          remove_from_tables(st.ix.per_culture, sel.lo, sel.hi, w,
                                             doc_id)),
                      rest, doc, doc_id, sel, fast_delete)

\* Doc::swap_remove_attr: the doc afterwards (old is read by the caller).
Doc_swap_remove_attr(doc, attribute_index) == VecSwapRemove(doc, attribute_index)

\* The body of the doc loop of swap_remove_attr for the doc at doc_index;
\* st is [ix, log].
swap_remove_doc(st, doc_index, attribute_index, sel, fast_delete) ==
    LET d == st.ix.docs[doc_index + 1]
    IN  IF Len(d) > attribute_index
        THEN swap_remove_words(
                 [st EXCEPT !.ix.docs[doc_index + 1] =
                                Doc_swap_remove_attr(d, attribute_index)],
                 Elems(d[attribute_index + 1]),
                 Doc_swap_remove_attr(d, attribute_index),
                 doc_index, sel, fast_delete)
        ELSE st

RECURSIVE swap_remove_docs(_, _, _, _, _)
\* The loop of swap_remove_attr over the docs from position doc_index.
swap_remove_docs(st, doc_index, attribute_index, sel, fast_delete) ==
    IF doc_index >= Len(st.ix.docs) THEN st
    ELSE swap_remove_docs(
             swap_remove_doc(st, doc_index, attribute_index, sel, fast_delete),
             doc_index + 1, attribute_index, sel, fast_delete)

RECURSIVE release_unreferenced(_, _)
\* The closing loop of swap_remove_attr: drop the logged words that no
\* table holds any more.
release_unreferenced(ix, log) ==
    IF log = {} THEN ix
    ELSE LET w == CHOOSE x \in log : TRUE
         IN  release_unreferenced(
                 IF \A c \in 1..Len(ix.per_culture) :
                        ~WordIndex_contains_word(ix.per_culture[c], w)
                 THEN [ix EXCEPT !.word_intern = StrIntern_remove(@, w)]
                 ELSE ix,
                 log \ {w})

\* The end of swap_remove_attr from the [ix, log] the doc loop leaves.
swap_remove_release(st) == release_unreferenced(st.ix, st.log)

\* Index::swap_remove_attr
Index_swap_remove_attr(ix, attribute_index, culture) ==
    swap_remove_release(
        swap_remove_docs([ix |-> ix, log |-> {}], 0, attribute_index,
                         word_indexes(culture, ix.per_culture),
                         culture = NoCulture))

RECURSIVE replay_words(_, _, _, _, _)
replay_words(per_culture, words, doc_id, lo, hi) ==
    IF words = {} THEN per_culture
    ELSE LET w == CHOOSE x \in words : TRUE
         IN  replay_words(insert_static(per_culture, lo, hi, w, doc_id),
                          words \ {w}, doc_id, lo, hi)

RECURSIVE replay_docs(_, _, _, _, _, _)
\* The replay loop of ensure_culture: the words of the cultureless
\* attributes of every doc go to the new tables lo .. hi - 1.
replay_docs(per_culture, docs, index, attr_indexes, lo, hi) ==
    IF index >= Len(docs) THEN per_culture
    ELSE LET doc   == docs[index + 1]
             words == UNION { Elems(doc[ai + 1]) :
                              ai \in { x \in attr_indexes : x < Len(doc) } }
         IN  replay_docs(replay_words(per_culture, words, index, lo, hi),
                         docs, index + 1, attr_indexes, lo, hi)

\* The largest of a non-empty set of numbers.
SetMax(S) == CHOOSE x \in S : \A y \in S : y <= x

\* Index::ensure_culture
Index_ensure_culture(ix, attrs_) ==
    IF ~\E i \in 1..Len(attrs_) : attrs_[i].direction = ix.direction
    THEN [ix EXCEPT !.per_culture = <<>>]
    ELSE
    LET cultures == { attrs_[i].culture : i \in 1..Len(attrs_) } \ {NoCulture}
        count    == (IF cultures = {} THEN 0 ELSE SetMax(cultures)) + 1
        len      == Len(ix.per_culture)
    IN  IF len = count THEN ix
        ELSE IF len > count
        THEN [ix EXCEPT !.per_culture = SubSeq(@, 1, count)]
        ELSE
        LET extended == ix.per_culture \o [i \in 1..(count - len) |-> WordIndex_new]
            attr_indexes == { attrs_[i].index : i \in
                                { j \in 1..Len(attrs_) :
                                    /\ attrs_[j].culture = NoCulture
                                    /\ attrs_[j].direction = ix.direction } }
        IN  IF len = 0 \/ attr_indexes = {}
            THEN [ix EXCEPT !.per_culture = extended]
            ELSE [ix EXCEPT !.per_culture =
                     replay_docs(extended, ix.docs, 0, attr_indexes, len, count)]

(***************************************************************************)
(* Searcher: the record [attrs, forward, backward].  attrs is the          *)
(* IndexMap in insertion order, each entry [name, direction, culture,      *)
(* priority, index].                                                       *)
(***************************************************************************)

Searcher_new ==
    [attrs |-> <<>>, forward |-> Index_new("Forward"),
     backward |-> Index_new("Backward")]

\* IndexMap::get / contains_key: the position of name, 0 when absent.
AttrPos(attrs_, name) ==
    IF \E i \in 1..Len(attrs_) : attrs_[i].name = name
    THEN CHOOSE i \in 1..Len(attrs_) : attrs_[i].name = name
    ELSE 0

\* direction_index_mut, as a read
direction_index(s, direction) ==
    IF direction = "Forward" THEN s.forward ELSE s.backward

\* direction_index_mut, as a write
with_direction_index(s, direction, ix) ==
    IF direction = "Forward" THEN [s EXCEPT !.forward = ix]
    ELSE [s EXCEPT !.backward = ix]

\* reindex_attribute without the renumbering of the indices.
Searcher_reindex_attribute_unnumbered(s, direction) ==
    with_direction_index(s, direction,
        Index_ensure_culture(direction_index(s, direction), s.attrs))

\* Searcher::reindex_attribute
Searcher_reindex_attribute(s, direction) ==
    LET attrs1 == [i \in 1..Len(s.attrs) |->
                     IF s.attrs[i].direction = direction
                     THEN [s.attrs[i] EXCEPT !.index =
                             Cardinality({ j \in 1..(i - 1) :
                                             s.attrs[j].direction = direction })]
                     ELSE s.attrs[i]]
        s1 == [s EXCEPT !.attrs = attrs1]
    IN  with_direction_index(s1, direction,
            Index_ensure_culture(direction_index(s1, direction), attrs1))

\* set_attribute with the AttrProps of a registered id overwritten.
Searcher_set_attribute_overwriting(s, name, attr) ==
    LET pos == AttrPos(s.attrs, name)
        a   == [name |-> name, direction |-> attr.direction,
                culture |-> attr.culture, priority |-> attr.priority,
                index |-> 0]
    IN  IF pos # 0
        THEN [s |-> Searcher_reindex_attribute(
                        [s EXCEPT !.attrs[pos] = a], attr.direction),
              ret |-> FALSE]
        ELSE [s |-> Searcher_reindex_attribute(
                        [s EXCEPT !.attrs = Append(@, a)], attr.direction),
              ret |-> TRUE]

\* Searcher::set_attribute: [s |-> the searcher afterwards, ret |-> the bool]
Searcher_set_attribute(s, name, attr) ==
    IF AttrPos(s.attrs, name) # 0 THEN [s |-> s, ret |-> FALSE]
    ELSE LET a == [name |-> name, direction |-> attr.direction,
                   culture |-> attr.culture, priority |-> attr.priority,
                   index |-> 0]
         IN  [s |-> Searcher_reindex_attribute(
                        [s EXCEPT !.attrs = Append(@, a)], attr.direction),
              ret |-> TRUE]

\* Searcher::remove_attr: [s |-> the searcher afterwards, ret |-> the bool]
Searcher_remove_attr(s, name) ==
    LET pos == AttrPos(s.attrs, name)
    IN  IF pos = 0 THEN [s |-> s, ret |-> FALSE]
        ELSE LET a  == s.attrs[pos]
                 s1 == [s EXCEPT !.attrs = VecRemove(@, pos - 1)]
             IN  [s |-> Searcher_reindex_attribute(
                            with_direction_index(s1, a.direction,
                                Index_swap_remove_attr(
                                    direction_index(s1, a.direction),
                                    a.index, a.culture)),
                            a.direction),
                  ret |-> TRUE]

\* Searcher::remove_doc
Searcher_remove_doc(s, doc_id) ==
    [s EXCEPT !.backward = Index_remove_doc(@, doc_id),
              !.forward  = Index_remove_doc(@, doc_id)]

\* insert_doc_attribute with an unregistered name taken for the first
\* registered attribute.
Searcher_insert_doc_attribute_first(s, doc_id, name, value) ==
    LET pos == IF AttrPos(s.attrs, name) = 0 THEN Min(1, Len(s.attrs))
               ELSE AttrPos(s.attrs, name)
    IN  IF pos = 0 THEN s
        ELSE LET a == s.attrs[pos]
             IN  with_direction_index(s, a.direction,
                    Index_insert_doc_attribute(direction_index(s, a.direction),
                                               doc_id, a.index, value, s.attrs))

\* Searcher::insert_doc_attribute
Searcher_insert_doc_attribute(s, doc_id, name, value) ==
    LET pos == AttrPos(s.attrs, name)
    IN  IF pos = 0 THEN s
        ELSE LET a == s.attrs[pos]
             IN  with_direction_index(s, a.direction,
                    Index_insert_doc_attribute(direction_index(s, a.direction),
                                               doc_id, a.index, value, s.attrs))

\* Searcher::get_doc_attr_words
Searcher_get_doc_attr_words(s, doc_id, name) ==
    LET pos == AttrPos(s.attrs, name)
    IN  IF pos = 0 THEN <<>>
        ELSE Index_get_doc_attribute_words(
                 direction_index(s, s.attrs[pos].direction), doc_id,
                 s.attrs[pos].index)

(***************************************************************************)
(* Word queries and the query executor.  A WordQuery is                    *)
(* [word, len, index, op, presence]; a MatchEntry is [distance, docs,      *)
(* word]; a SearchQuery is [culture, words].                               *)
(***************************************************************************)

\* WordQuery::new
WordQuery_new(word, op, presence, index) ==
    [word |-> word, len |-> Min(Len(word), 255), index |-> index, op |-> op,
     presence |-> presence]

\* char::is_alphanumeric
is_alphanumeric(c) == is_alphabetic(c) \/ is_numeric(c)

\* char::is_whitespace
is_whitespace(c) == c = " "

RECURSIVE take_until(_, _, _, _)
\* take_until(chars, s, f) from position pos of the input, with text for s.
\* f is |v| v == quote for a quote character and |c| !c.is_alphanumeric()
\* when quote is "": [text |-> s afterwards, pos |-> the position reached]
take_until(input, pos, text, quote) ==
    IF pos >= Len(input) THEN [text |-> text, pos |-> pos]
    ELSE LET c == input[pos + 1]
         IN  IF (IF quote = "" THEN ~is_alphanumeric(c) ELSE c = quote)
             THEN [text |-> text, pos |-> pos]
             ELSE take_until(input, pos + 1,
                      IF is_alphanumeric(c)
                      THEN Append(text, lower_no_accent_char(c))
                      ELSE IF text # <<>> /\ ~is_whitespace(text[Len(text)])
                      THEN Append(text, " ")
                      ELSE text,
                      quote)

\* The arm of the second loop of parse_token for a '*' that ends the token,
\* with a '*' after a leading '*' read as a prefix query.
trailing_star_op_prefix(op) ==
    CASE op = "Fuzzy"    -> "StartsWith"
      [] op = "EndsWith" -> "StartsWith"
      [] OTHER           -> op

\* The arm of the second loop of parse_token for a '*' that ends the token.
trailing_star_op(op) ==
    CASE op = "Fuzzy"    -> "StartsWith"
      [] op = "EndsWith" -> "Contains"
      [] OTHER           -> op

RECURSIVE parse_tail(_, _, _)
\* The second loop of parse_token: [op |-> op, pos |-> the position reached]
parse_tail(input, pos, op) ==
    IF pos >= Len(input) THEN [op |-> op, pos |-> pos]
    ELSE LET c == input[pos + 1]
         IN  IF c = "*"
             THEN parse_tail(input, pos + 1,
                      IF pos + 1 >= Len(input) \/ is_whitespace(input[pos + 2])
                      THEN trailing_star_op(op) ELSE op)
             ELSE IF is_alphanumeric(c) \/ is_whitespace(c)
             THEN [op |-> op, pos |-> pos]
             ELSE parse_tail(input, pos + 1, op)

\* Option<WordQuery>::None
NoToken == [some |-> FALSE]

\* parse_token once the first loop has broken with the text, the second loop
\* having returned t.
parse_token_some(text, presence, index, t) ==
    [some |-> TRUE, token |-> WordQuery_new(text, t.op, presence, index),
     pos |-> t.pos]

\* The quote arm of the first loop: t is the text up to the closing quote,
\* which is eaten.
parse_quoted(input, presence, index, t) ==
    parse_token_some(t.text, presence, index,
                     parse_tail(input, Min(t.pos + 1, Len(input)), "Eq"))

\* The alphanumeric arm of the first loop: t is the run of alphanumerics.
parse_word(input, presence, op, index, t) ==
    parse_token_some(t.text, presence, index, parse_tail(input, t.pos, op))

RECURSIVE parse_token_from(_, _, _, _, _)
\* The first loop of parse_token from position pos.
parse_token_from(input, pos, presence, op, index) ==
    IF pos >= Len(input) THEN NoToken
    ELSE LET c == input[pos + 1]
         IN  CASE c = "+" -> parse_token_from(input, pos + 1, "Required", op, index)
               [] c = "-" -> parse_token_from(input, pos + 1, "Denied", op, index)
               [] c = "*" -> parse_token_from(input, pos + 1, presence, "EndsWith", index)
               [] c \in {"'", "\""} ->
                      parse_quoted(input, presence, index,
                                   take_until(input, pos + 1, <<>>, c))
               [] is_alphanumeric(c) ->
                      parse_word(input, presence, op, index,
                                 take_until(input, pos + 1,
                                            <<lower_no_accent_char(c)>>, ""))
               [] is_whitespace(c) ->
                      parse_token_from(input, pos + 1, "Optional", "Fuzzy", index)
               [] OTHER -> parse_token_from(input, pos + 1, presence, op, index)

\* parse_token(chars, index), chars being at position pos of the input.
parse_token(input, pos, index) ==
    parse_token_from(input, pos, "Optional", "Fuzzy", index)

RECURSIVE SearchQuery_words(_, _, _)
\* The loop of SearchQuery::new; t is what parse_token returned.
SearchQuery_words(input, words, t) ==
    IF ~t.some THEN words
    ELSE SearchQuery_words(input,
             IF t.token.word # <<>> THEN Append(words, t.token) ELSE words,
             parse_token(input, t.pos,
                 IF t.token.word # <<>> THEN Len(words) + 1 ELSE Len(words)))

\* SearchQuery::new
SearchQuery_new(culture, input) ==
    [culture |-> culture,
     words |-> SearchQuery_words(input, <<>>, parse_token(input, 0, 0))]

\* WordQuery::backward_word
backward_word(q) == Rev(q.word)

\* WordQuery::directional_word
WordQuery_directional_word(q, direction) ==
    IF direction = "Forward" THEN q.word ELSE backward_word(q)

NoDfa == [max_edits |-> -1, word |-> <<>>]

\* init_dfa building an automaton from two characters on.
init_dfa_from_two(word, len) ==
    IF len <= 1 THEN NoDfa
    ELSE IF len <= 5 THEN [max_edits |-> 1, word |-> word]
    ELSE IF len <= 8 THEN [max_edits |-> 2, word |-> word]
    ELSE [max_edits |-> 3, word |-> word]

\* init_dfa: no automaton for 0..=2 characters, else the prefix automaton of
\* word with 1, 2 or 3 edits.
init_dfa(word, len) ==
    IF len <= 2 THEN NoDfa
    ELSE IF len <= 5 THEN [max_edits |-> 1, word |-> word]
    ELSE IF len <= 8 THEN [max_edits |-> 2, word |-> word]
    ELSE [max_edits |-> 3, word |-> word]

RECURSIVE EditDistance(_, _)
\* Edit distance with adjacent transpositions at cost one, as the
\* automaton built by LevenshteinAutomatonBuilder::new(_, true) measures it.
EditDistance(a, b) ==
    IF a = <<>> THEN Len(b)
    ELSE IF b = <<>> THEN Len(a)
    ELSE LET la == Len(a)
             lb == Len(b)
             a1 == SubSeq(a, 1, la - 1)
             b1 == SubSeq(b, 1, lb - 1)
             subst == EditDistance(a1, b1) + (IF a[la] = b[lb] THEN 0 ELSE 1)
             del   == EditDistance(a1, b) + 1
             ins   == EditDistance(a, b1) + 1
             base  == Min(subst, Min(del, ins))
         IN  IF la >= 2 /\ lb >= 2 /\ a[la] = b[lb - 1] /\ a[la - 1] = b[lb]
             THEN Min(base, EditDistance(SubSeq(a, 1, la - 2), SubSeq(b, 1, lb - 2)) + 1)
             ELSE base

\* DFA::eval of a prefix automaton: the least distance of the query to a
\* prefix of s when within max_edits (Distance::Exact), else -1
\* (Distance::AtLeast).
dfa_eval(dfa, s) ==
    LET best == CHOOSE d \in { EditDistance(dfa.word, SubSeq(s, 1, n)) : n \in 0..Len(s) } :
                    \A n \in 0..Len(s) : d <= EditDistance(dfa.word, SubSeq(s, 1, n))
    IN  IF best <= dfa.max_edits THEN best ELSE -1

\* WordIndexRow::match_entry_eq_distance
match_entry_eq_distance(row, word) ==
    [distance |-> Min(ByteLen(row.word) - ByteLen(word), 255), docs |-> row.docs,
     word |-> row.word]

\* Vec::extend over the rows kept by a filter, in table order.
\* keep: the positions the filter lets through; entry: the entry mapped from
\* each position.
FilterRows(wi, keep, entry) ==
    LET F[i \in 0..Len(wi)] ==
            IF i = 0 THEN <<>>
            ELSE IF i \in keep THEN Append(F[i - 1], entry[i]) ELSE F[i - 1]
    IN  F[Len(wi)]

\* WordIndex::contains
WordIndex_contains(wi, word) ==
    FilterRows(wi, { i \in 1..Len(wi) : StrContains(wi[i].word, word) },
               [i \in 1..Len(wi) |-> match_entry_eq_distance(wi[i], word)])

\* WordIndex::ends_with
WordIndex_ends_with(wi, word) ==
    FilterRows(wi, { i \in 1..Len(wi) : StrEndsWith(wi[i].word, word) },
               [i \in 1..Len(wi) |-> match_entry_eq_distance(wi[i], word)])

\* WordIndex::eq
WordIndex_eq(wi, word) ==
    LET r == WordIndex_binary_search(wi, word)
    IN  IF r.ok THEN <<match_entry_eq_distance(wi[r.index + 1], word)>> ELSE <<>>

\* WordIndex::fuzzy
WordIndex_fuzzy(wi, dfa, word_len) ==
    LET Entry(r) ==
            LET a == ByteLen(r.word)
                word_dist == Min(Max(a - word_len, 0) + Max(word_len - a, 0), 63)
            IN  [distance |-> dfa_eval(dfa, r.word) + word_dist, docs |-> r.docs,
                 word |-> r.word]
    IN  FilterRows(wi, { i \in 1..Len(wi) : dfa_eval(dfa, wi[i].word) >= 0 },
                   [i \in 1..Len(wi) |-> Entry(wi[i])])

RECURSIVE take_while_starts_with(_, _, _)
\* self.0[index..].iter().take_while(starts_with).map(match_entry_eq_distance)
take_while_starts_with(wi, index, word) ==
    IF index >= Len(wi) \/ ~StrStartsWith(wi[index + 1].word, word) THEN <<>>
    ELSE <<match_entry_eq_distance(wi[index + 1], word)>>
            \o take_while_starts_with(wi, index + 1, word)

\* starts_with scanning from the row after the insertion point.
WordIndex_starts_with_after(wi, word) ==
    LET r == WordIndex_binary_search(wi, word)
    IN  IF ~r.ok /\ r.index >= Len(wi) THEN <<>>
        ELSE take_while_starts_with(wi, IF r.ok THEN r.index ELSE r.index + 1, word)

\* WordIndex::starts_with
WordIndex_starts_with(wi, word) ==
    LET r == WordIndex_binary_search(wi, word)
    IN  IF ~r.ok /\ r.index >= Len(wi) THEN <<>>
        ELSE take_while_starts_with(wi, r.index, word)

\* contains(direction, word_index, q, out)
contains(direction, wi, q) ==
    WordIndex_contains(wi, IF direction = "Forward" THEN q.word ELSE backward_word(q))

\* ends_with without the exchange of roles on a backward table.
ends_with_unswapped(direction, wi, q) ==
    WordIndex_ends_with(wi, IF direction = "Forward" THEN q.word ELSE backward_word(q))

\* ends_with(direction, word_index, q, out)
ends_with(direction, wi, q) ==
    IF direction = "Forward" THEN WordIndex_ends_with(wi, q.word)
    ELSE WordIndex_starts_with(wi, backward_word(q))

\* starts_with(direction, word_index, q, out)
starts_with(direction, wi, q) ==
    IF direction = "Forward" THEN WordIndex_starts_with(wi, q.word)
    ELSE WordIndex_ends_with(wi, backward_word(q))

\* fuzzy(direction, word_index, q, out)
fuzzy(direction, wi, q) ==
    IF direction = "Backward"
    THEN LET dfa == init_dfa(backward_word(q), q.len)
         IN  IF dfa # NoDfa THEN WordIndex_fuzzy(wi, dfa, ByteLen(backward_word(q)))
             ELSE WordIndex_ends_with(wi, backward_word(q))
    ELSE LET dfa == init_dfa(q.word, q.len)
         IN  IF dfa # NoDfa THEN WordIndex_fuzzy(wi, dfa, ByteLen(q.word))
             ELSE WordIndex_starts_with(wi, q.word)

\* Index::query with the last table as the fallback.
Index_query_last(ix, q, culture) ==
    IF Len(ix.per_culture) = 0 THEN <<>>
    ELSE LET wi == IF culture < Len(ix.per_culture)
                   THEN ix.per_culture[culture + 1]
                   ELSE ix.per_culture[Len(ix.per_culture)]
         IN  CASE q.op = "Contains"   -> contains(ix.direction, wi, q)
               [] q.op = "EndsWith"   -> ends_with(ix.direction, wi, q)
               [] q.op = "Eq"         ->
                      WordIndex_eq(wi, WordQuery_directional_word(q, ix.direction))
               [] q.op = "Fuzzy"      -> fuzzy(ix.direction, wi, q)
               [] q.op = "StartsWith" -> starts_with(ix.direction, wi, q)

\* Index::query: the entries pushed to out.
Index_query(ix, q, culture) ==
    IF Len(ix.per_culture) = 0 THEN <<>>
    ELSE LET wi == IF culture < Len(ix.per_culture)
                   THEN ix.per_culture[culture + 1] ELSE ix.per_culture[1]
         IN  CASE q.op = "Contains"   -> contains(ix.direction, wi, q)
               [] q.op = "EndsWith"   -> ends_with(ix.direction, wi, q)
               [] q.op = "Eq"         ->
                      WordIndex_eq(wi, WordQuery_directional_word(q, ix.direction))
               [] q.op = "Fuzzy"      -> fuzzy(ix.direction, wi, q)
               [] q.op = "StartsWith" -> starts_with(ix.direction, wi, q)

\* IndexToQuery::default: [map, query_len], map a function from the matched
\* words to [distance, docs, query_index].
IndexToQuery_default == [map |-> << >>, query_len |-> 0]

\* A comparison of the distances alone, the query index being left out.
PairGreater_distance_only(d1, i1, d2, i2) == d1 > d2

\* (o.distance, o.query_index) > (match_entry.distance, query.index)
PairGreater(d1, i1, d2, i2) == d1 > d2 \/ (d1 = d2 /\ i1 > i2)

\* IndexToQuery::add
IndexToQuery_add(itq, query, match_entry) ==
    LET w   == match_entry.word
        new == [distance |-> match_entry.distance, docs |-> match_entry.docs,
                query_index |-> query.index]
        map == IF w \in DOMAIN itq.map
               THEN IF PairGreater(itq.map[w].distance, itq.map[w].query_index,
                                   match_entry.distance, query.index)
                    THEN [itq.map EXCEPT ![w] = new]
                    ELSE itq.map
               ELSE [x \in DOMAIN itq.map \cup {w} |->
                        IF x = w THEN new ELSE itq.map[x]]
    IN  [map |-> map, query_len |-> Max(itq.query_len, query.index + 1)]

RECURSIVE IndexToQuery_extend(_, _, _)
\* IndexToQuery::extend
IndexToQuery_extend(itq, query, entries) ==
    IF entries = <<>> THEN itq
    ELSE IndexToQuery_extend(IndexToQuery_add(itq, query, Head(entries)), query,
                             Tail(entries))

RECURSIVE add_entries(_, _)
\* add_entries
add_entries(bitmap, entries) ==
    IF entries = <<>> THEN bitmap
    ELSE add_entries(bitmap \cup Head(entries).docs, Tail(entries))

RECURSIVE intersect_entries(_, _)
\* intersect_entries
intersect_entries(required, entries) ==
    IF entries = <<>> THEN required
    ELSE intersect_entries(required \cap Head(entries).docs, Tail(entries))

\* RoaringBitmap::full(), cut down to the ids a row can hold.
RoaringBitmap_full == DocIds

\* The locals of Searcher::query before the first word.
QueryLocalsInit ==
    [backward_query |-> IndexToQuery_default, forward_query |-> IndexToQuery_default,
     required |-> [some |-> FALSE, set |-> {}], denied |-> {}, optional |-> {},
     brk |-> FALSE]

\* The match arms of the loop with the Denied arm accumulating the forward
\* matches only.
query_arms_denied_forward_only(q, st, forward_temp, backward_temp) ==
    CASE q.presence = "Optional" ->
           [st EXCEPT !.optional =
               add_entries(add_entries(@, forward_temp), backward_temp)]
      [] q.presence = "Denied" ->
           [st EXCEPT !.denied = add_entries(@, forward_temp)]
      [] q.presence = "Required" ->
           IF forward_temp = <<>> /\ backward_temp = <<>>
           THEN [st EXCEPT !.required = [some |-> TRUE, set |-> {}], !.brk = TRUE]
           ELSE [st EXCEPT !.required =
                    [some |-> TRUE,
                     set  |-> intersect_entries(
                                 intersect_entries(
                                     IF @.some THEN @.set ELSE RoaringBitmap_full,
                                     forward_temp),
                                 backward_temp)]]

\* The match arms of the loop with an unmatched Required word passed over.
query_arms_unmatched_required_skipped(q, st, forward_temp, backward_temp) ==
    CASE q.presence = "Optional" ->
           [st EXCEPT !.optional =
               add_entries(add_entries(@, forward_temp), backward_temp)]
      [] q.presence = "Denied" ->
           [st EXCEPT !.denied =
               add_entries(add_entries(@, forward_temp), backward_temp)]
      [] q.presence = "Required" ->
           IF forward_temp = <<>> /\ backward_temp = <<>>
           THEN st
           ELSE [st EXCEPT !.required =
                    [some |-> TRUE,
                     set  |-> intersect_entries(
                                 intersect_entries(
                                     IF @.some THEN @.set ELSE RoaringBitmap_full,
                                     forward_temp),
                                 backward_temp)]]

\* The match on q.presence in the loop of Searcher::query: the locals
\* afterwards, brk set when the loop is left by break.
query_arms(q, st, forward_temp, backward_temp) ==
    CASE q.presence = "Optional" ->
           [st EXCEPT !.optional =
               add_entries(add_entries(@, forward_temp), backward_temp)]
      [] q.presence = "Denied" ->
           [st EXCEPT !.denied =
               add_entries(add_entries(@, forward_temp), backward_temp)]
      [] q.presence = "Required" ->
           IF forward_temp = <<>> /\ backward_temp = <<>>
           THEN [st EXCEPT !.required = [some |-> TRUE, set |-> {}], !.brk = TRUE]
           ELSE [st EXCEPT !.required =
                    [some |-> TRUE,
                     set  |-> intersect_entries(
                                 intersect_entries(
                                     IF @.some THEN @.set ELSE RoaringBitmap_full,
                                     forward_temp),
                                 backward_temp)]]

\* The two extend calls that close a turn of the loop; skipped after break.
query_drain(q, st, forward_temp, backward_temp) ==
    IF st.brk THEN st
    ELSE [st EXCEPT !.backward_query = IndexToQuery_extend(@, q, backward_temp),
                    !.forward_query  = IndexToQuery_extend(@, q, forward_temp)]

\* One turn of the loop of Searcher::query given what the two indices matched.
query_turn(q, st, forward_temp, backward_temp) ==
    query_drain(q, query_arms(q, st, forward_temp, backward_temp),
                forward_temp, backward_temp)

\* One turn of the loop of Searcher::query over the word q.
query_word(s, culture, q, st) ==
    query_turn(q, st, Index_query(s.forward, q, culture),
               Index_query(s.backward, q, culture))

RECURSIVE query_loop(_, _, _, _, _)
\* for q in &query.words, from position i
query_loop(s, culture, words, i, st) ==
    IF i >= Len(words) \/ st.brk THEN st
    ELSE query_loop(s, culture, words, i + 1,
                    query_word(s, culture, words[i + 1], st))

\* The final combination with the optional and required sets joined by union.
query_doc_ids_union(st) ==
    LET doc_ids == IF st.optional = {}
                   THEN (IF st.required.some THEN st.required.set ELSE {})
                   ELSE IF st.required.some
                   THEN st.optional \cup st.required.set
                   ELSE st.optional
    IN  doc_ids \ st.denied

\* The doc_ids of Searcher::query from the locals left by the loop.
query_doc_ids(st) ==
    LET doc_ids == IF st.optional = {}
                   THEN (IF st.required.some THEN st.required.set ELSE {})
                   ELSE IF st.required.some
                   THEN st.optional \cap st.required.set
                   ELSE st.optional
    IN  doc_ids \ st.denied

\* SearchResults::new as Searcher::query calls it, with the locals of the
\* call kept beside the results.
SearchResults_new(culture, st) ==
    [culture |-> culture, doc_ids |-> query_doc_ids(st),
     backward |-> st.backward_query, forward |-> st.forward_query,
     optional |-> st.optional, required |-> st.required, denied |-> st.denied]

\* Searcher::query
Searcher_query(s, query) ==
    SearchResults_new(query.culture,
        query_loop(s, query.culture, query.words, 0, QueryLocalsInit))

\* SearchResults::contains_doc_id
contains_doc_id(results, id) == id \in results.doc_ids

(***************************************************************************)
(* The comparator.  An Ordering is "Less", "Equal" or "Greater".  A        *)
(* MatchDistance is the number it wraps.  A Rec is [distance, index], a    *)
(* MatchDistanceScore [dirty, recs], a ProximitySeqScore [count,           *)
(* locations, proximity, seq], a WorkingSet [match_distance,               *)
(* proximity_seq] and the Comparer [left, right, set].                     *)
(***************************************************************************)

\* Ord::cmp on integers
cmp_int(a, b) == IF a < b THEN "Less" ELSE IF a > b THEN "Greater" ELSE "Equal"

\* Ord::cmp on bool: false before true
cmp_bool(a, b) == cmp_int(IF a THEN 1 ELSE 0, IF b THEN 1 ELSE 0)

\* Ordering::reverse
Ordering_reverse(o) ==
    IF o = "Less" THEN "Greater" ELSE IF o = "Greater" THEN "Less" ELSE "Equal"

\* MatchDistance::cmp, every distance of the crate being built as
\* MatchDistance(d).
MatchDistance_cmp(a, b) == cmp_int(a, b)

\* Option<MatchDistance>::None in a Rec.
NoDistance == -1

\* Rec::new
Rec_new(index) == [distance |-> NoDistance, index |-> index]

\* Rec::cmp
Rec_cmp(self, other) ==
    IF self.distance # NoDistance /\ other.distance # NoDistance
    THEN IF MatchDistance_cmp(self.distance, other.distance) = "Equal"
         THEN cmp_int(self.index, other.index)
         ELSE MatchDistance_cmp(self.distance, other.distance)
    ELSE IF self.distance # NoDistance THEN "Less"
    ELSE IF other.distance # NoDistance THEN "Greater"
    ELSE "Equal"

RECURSIVE recs_cmp(_, _, _)
\* Vec<Rec>::cmp from position i: lexicographic, a strict prefix is Less.
recs_cmp(a, b, i) ==
    IF i >= Len(a) \/ i >= Len(b) THEN cmp_int(Len(a), Len(b))
    ELSE IF Rec_cmp(a[i + 1], b[i + 1]) # "Equal" THEN Rec_cmp(a[i + 1], b[i + 1])
    ELSE recs_cmp(a, b, i + 1)

RECURSIVE recs_sort(_)
\* recs.sort_unstable() on the set of the recs.  Rec::cmp ties only two recs
\* without a distance, which no comparison tells apart and clear renumbers:
\* they are left in index order.
recs_sort(S) ==
    IF S = {} THEN <<>>
    ELSE LET m == CHOOSE x \in S : \A y \in S :
                     \/ Rec_cmp(x, y) = "Less"
                     \/ Rec_cmp(x, y) = "Equal" /\ x.index <= y.index
         IN  <<m>> \o recs_sort(S \ {m})

\* MatchDistanceScore::new
MatchDistanceScore_new == [dirty |-> FALSE, recs |-> <<>>]

\* MatchDistanceScore::clear
MatchDistanceScore_clear(self) ==
    IF self.dirty
    THEN [dirty |-> FALSE, recs |-> [i \in 1..Len(self.recs) |-> Rec_new(i - 1)]]
    ELSE self

\* MatchDistanceScore::ensure_size
MatchDistanceScore_ensure_size(self, len) ==
    IF Len(self.recs) < len
    THEN [self EXCEPT !.recs =
             [i \in 1..len |-> IF i <= Len(self.recs) THEN self.recs[i]
                               ELSE Rec_new(i - 1)]]
    ELSE self

\* The assignment to rec.distance and to dirty in add_word, the recs being
\* long enough.
MatchDistanceScore_set_distance(self, entry) ==
    [self EXCEPT
       !.recs[entry.query_index + 1].distance =
           IF @ = NoDistance THEN entry.distance ELSE Min(@, entry.distance),
       !.dirty = TRUE]

\* MatchDistanceScore::add_word
MatchDistanceScore_add_word(self, index, word) ==
    IF word \in DOMAIN index.map
    THEN MatchDistanceScore_set_distance(
             IF index.map[word].query_index < Len(self.recs) THEN self
             ELSE MatchDistanceScore_ensure_size(self, index.query_len),
             index.map[word])
    ELSE self

RECURSIVE MatchDistanceScore_add_words(_, _, _, _)
\* for word in words { self.add_word(index, *word) }, from position i
MatchDistanceScore_add_words(self, index, words, i) ==
    IF i >= Len(words) THEN self
    ELSE MatchDistanceScore_add_words(
             MatchDistanceScore_add_word(self, index, words[i + 1]),
             index, words, i + 1)

\* The closing sort of MatchDistanceScore::update.
MatchDistanceScore_sort(self) ==
    IF self.dirty THEN [self EXCEPT !.recs = recs_sort(Elems(@))] ELSE self

\* MatchDistanceScore::update
MatchDistanceScore_update(self, index, words) ==
    MatchDistanceScore_sort(
        MatchDistanceScore_add_words(MatchDistanceScore_clear(self), index, words, 0))

\* MatchDistanceScore::cmp
MatchDistanceScore_cmp(self, other) ==
    IF cmp_bool(self.recs = <<>>, other.recs = <<>>) = "Equal"
    THEN recs_cmp(self.recs, other.recs, 0)
    ELSE cmp_bool(self.recs = <<>>, other.recs = <<>>)

\* usize::MAX, cut down to the largest integer TLC holds; the
\* code only stores it in proximity and compares it with differences of word
\* locations.
usize_MAX == 2147483647

\* u8::MAX, the largest culture.
u8_MAX == 255

\* Option<usize>::None in locations.
NoLocation == -1

\* ProximitySeqScore::default
ProximitySeqScore_default ==
    [count |-> 0, locations |-> <<>>, proximity |-> 0, seq |-> 0]

\* ProximitySeqScore::clear
ProximitySeqScore_clear(self) ==
    IF self.count > 0
    THEN [count |-> 0, locations |-> [i \in 1..Len(self.locations) |-> NoLocation],
          proximity |-> 0, seq |-> 0]
    ELSE self

\* ProximitySeqScore::ensure_size
ProximitySeqScore_ensure_size(self, len) ==
    IF Len(self.locations) < len
    THEN [self EXCEPT !.locations =
             [i \in 1..len |-> IF i <= Len(self.locations) THEN self.locations[i]
                               ELSE NoLocation]]
    ELSE self

\* self.locations.iter().filter_map(|l| *l), as a vector
some_locations(locations) ==
    LET kept[i \in 0..Len(locations)] ==
            IF i = 0 THEN <<>>
            ELSE IF locations[i] # NoLocation THEN Append(kept[i - 1], locations[i])
            ELSE kept[i - 1]
    IN  kept[Len(locations)]

\* Proximity::value after Proximity::add of every location
Proximity_value(locs) ==
    (CHOOSE x \in Elems(locs) : \A y \in Elems(locs) : y <= x)
  - (CHOOSE x \in Elems(locs) : \A y \in Elems(locs) : x <= y)

\* Seq.seq after Seq::add of every location
Seq_value(locs) == Cardinality({ i \in 2..Len(locs) : locs[i - 1] < locs[i] })

\* The fold of update_proximity_seq over the locs, then its comparison with
\* the best proximity so far.
keep_best_proximity(self, locs) ==
    IF self.proximity > Proximity_value(locs)
    THEN [self EXCEPT !.proximity = Proximity_value(locs), !.seq = Seq_value(locs)]
    ELSE self

\* ProximitySeqScore::update_proximity_seq
update_proximity_seq(self) ==
    IF self.count > 1 THEN keep_best_proximity(self, some_locations(self.locations))
    ELSE self

\* loc.replace(word_location) and the reset that follows a changed count, the
\* locations being long enough.
ProximitySeqScore_replace(self, query_index, word_location) ==
    IF self.locations[query_index + 1] = NoLocation
    THEN [self EXCEPT !.locations[query_index + 1] = word_location,
                      !.count = @ + 1, !.proximity = usize_MAX, !.seq = 0]
    ELSE [self EXCEPT !.locations[query_index + 1] = word_location]

\* ProximitySeqScore::add_word
ProximitySeqScore_add_word(self, index, word, word_location) ==
    IF word \in DOMAIN index.map
    THEN update_proximity_seq(
             ProximitySeqScore_replace(
                 IF index.map[word].query_index < Len(self.locations) THEN self
                 ELSE ProximitySeqScore_ensure_size(self, index.query_len),
                 index.map[word].query_index, word_location))
    ELSE self

RECURSIVE ProximitySeqScore_add_words(_, _, _, _)
\* for (word_location, &word) in words.iter().enumerate(), from position i
ProximitySeqScore_add_words(self, index, words, i) ==
    IF i >= Len(words) THEN self
    ELSE ProximitySeqScore_add_words(
             ProximitySeqScore_add_word(self, index, words[i + 1], i),
             index, words, i + 1)

\* ProximitySeqScore::update
ProximitySeqScore_update(self, index, words) ==
    ProximitySeqScore_add_words(ProximitySeqScore_clear(self), index, words, 0)

\* ProximitySeqScore::cmp; the last comparison reads other.seq on both sides.
ProximitySeqScore_cmp(self, other) ==
    IF cmp_int(other.count, self.count) # "Equal"
    THEN cmp_int(other.count, self.count)
    ELSE IF cmp_int(self.proximity, other.proximity) # "Equal"
    THEN cmp_int(self.proximity, other.proximity)
    ELSE cmp_int(other.seq, other.seq)

\* WorkingSet::new
WorkingSet_new ==
    [match_distance |-> MatchDistanceScore_new,
     proximity_seq |-> ProximitySeqScore_default]

\* Comparer::new
Comparer_new == [left |-> WorkingSet_new, right |-> WorkingSet_new,
                 set |-> WorkingSet_new]

\* self.attrs.values().filter(|a| a.culture.map_or(true, |c| c == culture))
culture_attrs(s, culture) ==
    LET kept[i \in 0..Len(s.attrs)] ==
            IF i = 0 THEN <<>>
            ELSE IF s.attrs[i].culture = NoCulture \/ s.attrs[i].culture = culture
            THEN Append(kept[i - 1], s.attrs[i])
            ELSE kept[i - 1]
    IN  kept[Len(s.attrs)]

\* The (direction, index) pairs pushed under the priority p, in the order of kept.
tier_attrs(kept, p) ==
    LET pushed[i \in 0..Len(kept)] ==
            IF i = 0 THEN <<>>
            ELSE IF kept[i].priority = p
            THEN Append(pushed[i - 1],
                        [direction |-> kept[i].direction, index |-> kept[i].index])
            ELSE pushed[i - 1]
    IN  pushed[Len(kept)]

\* The tiers [priority, attrs] of kept in ascending priority.
sorted_tiers(kept, keys) ==
    LET sorted[n \in 0..Cardinality(keys)] ==
            IF n = 0 THEN <<>>
            ELSE Append(sorted[n - 1],
                        [priority |-> CHOOSE p \in keys :
                                         Cardinality({ q \in keys : q < p }) = n - 1,
                         attrs |-> tier_attrs(kept,
                                      CHOOSE p \in keys :
                                         Cardinality({ q \in keys : q < p }) = n - 1)])
    IN  sorted[Cardinality(keys)]

\* The priorities of the attributes kept.
tier_keys(kept) == { kept[i].priority : i \in 1..Len(kept) }

\* Searcher::compute_attr_priorities: the tiers [priority, attrs] in ascending
\* priority, attrs the (direction, index) pairs in registration order.
compute_attr_priorities(s, culture) ==
    sorted_tiers(culture_attrs(s, culture), tier_keys(culture_attrs(s, culture)))

\* Searcher::attrs_priorities.  The OnceCell is emptied by reindex_attribute,
\* the only writer of attrs, so what a call reads is what get_or_init would
\* compute from the attrs of the moment.
\* The sum max + 1 is computed in u8; without overflow checks it wraps.
attrs_priorities(s, culture) ==
    LET cultures == { s.attrs[i].culture : i \in 1..Len(s.attrs) } \ {NoCulture}
        count    == ((IF cultures = {} THEN 0 ELSE SetMax(cultures)) + 1) % (u8_MAX + 1)
    IN  IF culture < count THEN compute_attr_priorities(s, culture)
        ELSE IF count > 0 THEN compute_attr_priorities(s, 0)
        ELSE <<>>

\* The u8 sum max + 1 of attrs_priorities does not fit in 8 bits.
count_overflows(s) ==
    \E i \in 1..Len(s.attrs) : s.attrs[i].culture = u8_MAX

\* The closure of get_or_init in attrs_priorities, the sum having wrapped
\* where it overflows: the tiers of each culture 0..count-1.
by_cultures(s) ==
    LET cultures == { s.attrs[i].culture : i \in 1..Len(s.attrs) } \ {NoCulture}
        count    == ((IF cultures = {} THEN 0 ELSE SetMax(cultures)) + 1) % (u8_MAX + 1)
    IN  [c \in 1..count |-> compute_attr_priorities(s, c - 1)]

\* OnceCell::new(): the empty cell of attrs_priorities.
NoCell == [some |-> FALSE]

\* self.attrs_priorities.get_or_init(..): the cell afterwards.
get_or_init(cell, s) ==
    IF cell.some THEN cell ELSE [some |-> TRUE, table |-> by_cultures(s)]

\* by_cultures.get(culture).or_else(|| by_cultures.first()).map_or(&[], ..)
by_cultures_get(table, culture) ==
    IF culture < Len(table) THEN table[culture + 1]
    ELSE IF Len(table) > 0 THEN table[1]
    ELSE <<>>

\* SearchResults::direction_index_results: [index, index_to_query]
direction_index_results(s, results, direction) ==
    [index |-> direction_index(s, direction),
     index_to_query |-> IF direction = "Forward" THEN results.forward
                        ELSE results.backward]

\* The swap that closes WorkingSet::match_distance; side is "left" or "right".
match_distance_swap(c, side) ==
    IF MatchDistanceScore_cmp(c[side].match_distance, c.set.match_distance) = "Greater"
    THEN [c EXCEPT ![side].match_distance = c.set.match_distance,
                   !.set.match_distance = c[side].match_distance]
    ELSE c

\* WorkingSet::match_distance on the working set of a side of the comparer c
WorkingSet_match_distance(c, side, id, attr_index, results) ==
    IF Index_get_doc_attribute_words(results.index, id, attr_index) # <<>>
    THEN match_distance_swap(
             [c EXCEPT !.set.match_distance =
                 MatchDistanceScore_update(@, results.index_to_query,
                     Index_get_doc_attribute_words(results.index, id, attr_index))],
             side)
    ELSE c

\* The swap that closes WorkingSet::proximity_seq.
proximity_seq_swap(c, side) ==
    IF ProximitySeqScore_cmp(c[side].proximity_seq, c.set.proximity_seq) = "Greater"
    THEN [c EXCEPT ![side].proximity_seq = c.set.proximity_seq,
                   !.set.proximity_seq = c[side].proximity_seq]
    ELSE c

\* WorkingSet::proximity_seq on the working set of a side of the comparer c
WorkingSet_proximity_seq(c, side, id, attr_index, results) ==
    IF Index_get_doc_attribute_words(results.index, id, attr_index) # <<>>
    THEN proximity_seq_swap(
             [c EXCEPT !.set.proximity_seq =
                 ProximitySeqScore_update(@, results.index_to_query,
                     Index_get_doc_attribute_words(results.index, id, attr_index))],
             side)
    ELSE c

RECURSIVE Side_match_distance_from(_, _, _, _, _, _, _)
\* The loop of Side::match_distance over the attrs of a tier, from position k.
Side_match_distance_from(c, side, s, doc_id, results, attrs_, k) ==
    IF k >= Len(attrs_) THEN c
    ELSE Side_match_distance_from(
             WorkingSet_match_distance(c, side, doc_id, attrs_[k + 1].index,
                 direction_index_results(s, results, attrs_[k + 1].direction)),
             side, s, doc_id, results, attrs_, k + 1)

\* Side::match_distance: the comparer afterwards, the score returned being
\* the match_distance of the side.
Side_match_distance(c, side, s, doc_id, results, attrs_) ==
    Side_match_distance_from(
        [c EXCEPT ![side].match_distance = MatchDistanceScore_clear(@)],
        side, s, doc_id, results, attrs_, 0)

RECURSIVE Side_proximity_seq_from(_, _, _, _, _, _, _)
\* The loop of Side::proximity_seq over the attrs of a tier, from position k.
Side_proximity_seq_from(c, side, s, doc_id, results, attrs_, k) ==
    IF k >= Len(attrs_) THEN c
    ELSE Side_proximity_seq_from(
             WorkingSet_proximity_seq(c, side, doc_id, attrs_[k + 1].index,
                 direction_index_results(s, results, attrs_[k + 1].direction)),
             side, s, doc_id, results, attrs_, k + 1)

\* Side::proximity_seq
Side_proximity_seq(c, side, s, doc_id, results, attrs_) ==
    Side_proximity_seq_from(
        [c EXCEPT ![side].proximity_seq = ProximitySeqScore_clear(@)],
        side, s, doc_id, results, attrs_, 0)

\* The two match_distance calls of one turn of the loop of Comparer::compare.
tier_match_distance(c, s, lid, lres, rid, rres, l_attrs, r_attrs) ==
    Side_match_distance(Side_match_distance(c, "left", s, lid, lres, l_attrs),
                        "right", s, rid, rres, r_attrs)

\* The two proximity_seq calls of one turn of the loop of Comparer::compare.
tier_proximity_seq(c, s, lid, lres, rid, rres, l_attrs, r_attrs) ==
    Side_proximity_seq(Side_proximity_seq(c, "left", s, lid, lres, l_attrs),
                       "right", s, rid, rres, r_attrs)

\* The comparison of the two sides' scores after each pair of calls.
match_distance_o(c) ==
    MatchDistanceScore_cmp(c.left.match_distance, c.right.match_distance)

proximity_seq_o(c) ==
    ProximitySeqScore_cmp(c.left.proximity_seq, c.right.proximity_seq)

RECURSIVE compare_from(_, _, _, _, _, _, _, _, _)
RECURSIVE compare_after_match_distance(_, _, _, _, _, _, _, _, _)
RECURSIVE compare_after_proximity_seq(_, _, _, _, _, _, _, _, _)

\* The loop of Comparer::compare from the tiers at position i of both sides:
\* [o |-> the Ordering returned, comparer |-> the comparer afterwards]
compare_from(c, s, lid, lres, rid, rres, l, r, i) ==
    IF i < Len(l) /\ i < Len(r)
    THEN compare_after_match_distance(
             tier_match_distance(c, s, lid, lres, rid, rres,
                                 l[i + 1].attrs, r[i + 1].attrs),
             s, lid, lres, rid, rres, l, r, i)
    ELSE IF i < Len(r) THEN [o |-> "Greater", comparer |-> c]
    ELSE IF i < Len(l) THEN [o |-> "Less", comparer |-> c]
    ELSE [o |-> "Equal", comparer |-> c]

\* The turn of the loop once both match distances are computed.
compare_after_match_distance(c, s, lid, lres, rid, rres, l, r, i) ==
    IF match_distance_o(c) # "Equal" THEN [o |-> match_distance_o(c), comparer |-> c]
    ELSE compare_after_proximity_seq(
             tier_proximity_seq(c, s, lid, lres, rid, rres,
                                l[i + 1].attrs, r[i + 1].attrs),
             s, lid, lres, rid, rres, l, r, i)

\* The turn of the loop once both proximity scores are computed.
compare_after_proximity_seq(c, s, lid, lres, rid, rres, l, r, i) ==
    IF proximity_seq_o(c) # "Equal" THEN [o |-> proximity_seq_o(c), comparer |-> c]
    ELSE compare_from(c, s, lid, lres, rid, rres, l, r, i + 1)

\* Comparer::compare on the comparer c, both results borrowing the searcher s:
\* [o |-> the Ordering returned, comparer |-> the comparer afterwards]
Comparer_compare(c, s, lid, lres, rid, rres) ==
    compare_from(c, s, lid, lres, rid, rres,
                 attrs_priorities(s, lres.culture),
                 attrs_priorities(s, rres.culture), 0)

(***************************************************************************)
(* The state machine.                                                      *)
(***************************************************************************)

\* The searcher of the current state.
Cur == [attrs |-> attrs, forward |-> forward, backward |-> backward]

NoValue == <<"NoValue">>

\* passed[d][n]: the value last passed to insert_doc_attribute(d, n, .) for a
\* registered n since d was last removed and n last registered.
PassedInit == [d \in DocIds |-> [n \in AttrNames |-> NoValue]]

Init ==
    /\ attrs = Searcher_new.attrs
    /\ forward = Searcher_new.forward
    /\ backward = Searcher_new.backward
    /\ passed = PassedInit
    /\ last = [op |-> "new"]
    /\ ops = 0
    /\ comparer = Comparer_new

Install(s) ==
    /\ attrs' = s.attrs
    /\ forward' = s.forward
    /\ backward' = s.backward

\* The state after set_attribute has returned r.
SetAttributeReturns(a, r) ==
    /\ Install(r.s)
    /\ passed' = passed
    /\ last' = [op |-> "set_attribute", name |-> a.name, ret |-> r.ret]
    /\ ops' = ops + 1

SetAttribute(a) == SetAttributeReturns(a, Searcher_set_attribute(Cur, a.name, a))

\* The state after remove_attr has returned r.
RemoveAttrReturns(n, r) ==
    /\ Install(r.s)
    /\ passed' = IF r.ret
                 THEN [d \in DocIds |-> [passed[d] EXCEPT ![n] = NoValue]]
                 ELSE passed
    /\ last' = [op |-> "remove_attr", name |-> n, ret |-> r.ret]
    /\ ops' = ops + 1

RemoveAttr(n) == RemoveAttrReturns(n, Searcher_remove_attr(Cur, n))

InsertDocAttribute(d, n, v) ==
    /\ Install(Searcher_insert_doc_attribute(Cur, d, n, v))
    /\ passed' = IF AttrPos(attrs, n) # 0
                 THEN [passed EXCEPT ![d][n] = v] ELSE passed
    /\ last' = [op |-> "insert_doc_attribute", doc |-> d, name |-> n, value |-> v]
    /\ ops' = ops + 1

RemoveDoc(d) ==
    /\ Install(Searcher_remove_doc(Cur, d))
    /\ passed' = [passed EXCEPT ![d] = [n \in AttrNames |-> NoValue]]
    /\ last' = [op |-> "remove_doc", doc |-> d]
    /\ ops' = ops + 1

\* A SearchResults of the last query is in scope.
ResultsAlive == last.op \in {"query", "compare"}

\* The public mutating calls, at most limit of them, with their arguments
\* drawn from the given sets.  A SearchResults borrows the searcher: no
\* mutation while one is alive.
Mutate(limit, inputs, names, docs, values) ==
    /\ ops < limit
    /\ ~ResultsAlive
    /\ comparer' = comparer
    /\ \/ \E a \in inputs : SetAttribute(a)
       \/ \E n \in names : RemoveAttr(n)
       \/ \E d \in docs, n \in names, v \in values : InsertDocAttribute(d, n, v)
       \/ \E d \in docs : RemoveDoc(d)

Next == Mutate(MaxOps, AttrInputs, Names, DocIds, Values)

Spec == Init /\ [][Next]_vars

(***************************************************************************)
(* Longer runs on one document, with a forward attribute of culture 1 and  *)
(* the two backward attributes.                                            *)
(***************************************************************************)

\* Number of public calls explored in SpecDeep.
MaxDeepOps == 6

DeepAttrInputs == { a \in AttrInputs : a.name \in {"fr", "bk", "bk0"} }

DeepNames == { a.name : a \in DeepAttrInputs } \cup {UnknownName}

DeepDocIds == {0}

NextDeep == Mutate(MaxDeepOps, DeepAttrInputs, DeepNames, DeepDocIds, Values)

SpecDeep == Init /\ [][NextDeep]_vars

(***************************************************************************)
(* Queries on a searcher with one cultureless attribute per direction.     *)
(***************************************************************************)

QueryAttrInputs == { a \in AttrInputs : a.name \in {"any", "bk"} }

QueryNames == { a.name : a \in QueryAttrInputs } \cup {UnknownName}

QueryTexts == { <<"a">>, <<"a", "b">> }

QueryOps == {"Contains", "EndsWith", "Eq", "Fuzzy", "StartsWith"}

Presences == {"Optional", "Required", "Denied"}

\* The word sequences a parser hands over: dense query_index 0..n-1.
\* One-word queries take every operator, two-word queries pair exact and
\* prefix words.
PairOps == {"Eq", "StartsWith"}

QueryWordSeqs ==
    LET W  == QueryTexts \X QueryOps \X Presences
        W2 == QueryTexts \X PairOps \X Presences
        Mk(t, i) == WordQuery_new(t[1], t[2], t[3], i)
    IN  {<<>>} \cup { <<Mk(t, 0)>> : t \in W }
               \cup { <<Mk(t, 0), Mk(u, 1)>> : t \in W2, u \in W2 }

Queries == { [culture |-> 0, words |-> ws] : ws \in QueryWordSeqs }

Query(q) ==
    /\ ~ResultsAlive
    /\ last' = [op |-> "query", query |-> q, results |-> Searcher_query(Cur, q)]
    /\ UNCHANGED <<attrs, forward, backward, passed, ops, comparer>>

\* The SearchResults goes out of scope.
DropResults ==
    /\ ResultsAlive
    /\ last' = [op |-> "drop"]
    /\ UNCHANGED <<attrs, forward, backward, passed, ops, comparer>>

NextQuery ==
    \/ Mutate(MaxQueryOps, QueryAttrInputs, QueryNames, DocIds, Values)
    \/ \E q \in Queries : Query(q)
    \/ DropResults

SpecQuery == Init /\ [][NextQuery]_vars

(***************************************************************************)
(* Comparisons: a searcher is built from registrations and insertions, a   *)
(* query is run and documents are compared under its results.  The         *)
(* Comparer is the thread's: it outlives the results and the queries.      *)
(***************************************************************************)

\* Number of building calls that may precede the comparisons in SpecCompare.
MaxCompareOps == 4

\* Number of calls of compare in SpecCompare.
MaxCompares == 1

CompareAttrInputs == { a \in AttrInputs : a.name \in {"en", "any", "bk"} }

CompareValues == { <<"a">>, <<"a", " ", "b">>, <<"A", "b">> }

CompareTexts == { <<"a">>, <<"b">> }

\* Queries of culture 0: one Optional word under Eq or StartsWith, or two
\* Optional words under Eq.
CompareQueries ==
    { [culture |-> 0, words |-> <<WordQuery_new(t, o, "Optional", 0)>>] :
          t \in CompareTexts, o \in PairOps }
    \cup { [culture |-> 0,
            words |-> <<WordQuery_new(t, "Eq", "Optional", 0),
                        WordQuery_new(u, "Eq", "Optional", 1)>>] :
              t \in CompareTexts, u \in CompareTexts }

\* The registrations and insertions that build the searcher, at most limit of
\* them, with their arguments drawn from the given sets.
Build(limit, inputs, values) ==
    /\ ops < limit
    /\ ~ResultsAlive
    /\ comparer' = comparer
    /\ \/ \E a \in inputs : SetAttribute(a)
       \/ \E d \in DocIds, a \in inputs, v \in values :
             InsertDocAttribute(d, a.name, v)

\* The state after compare has returned r.
CompareReturns(lid, rid, r) ==
    /\ comparer' = r.comparer
    /\ last' = [op |-> "compare", query |-> last.query, results |-> last.results,
                lid |-> lid, rid |-> rid, o |-> r.o]
    /\ ops' = ops + 1
    /\ UNCHANGED <<attrs, forward, backward, passed>>

\* compare(lid, &results, rid, &results) on the results in scope, while fewer
\* than limit calls were made.
Compare(lid, rid, limit) ==
    /\ ResultsAlive
    /\ ops < limit
    /\ CompareReturns(lid, rid,
           Comparer_compare(comparer, Cur, lid, last.results, rid, last.results))

NextCompare ==
    \/ Build(MaxCompareOps, CompareAttrInputs, CompareValues)
    \/ \E q \in CompareQueries : Query(q)
    \/ \E lid \in DocIds, rid \in DocIds :
          Compare(lid, rid, MaxCompareOps + MaxCompares)
    \/ DropResults

SpecCompare == Init /\ [][NextCompare]_vars

(***************************************************************************)
(* Comparisons under three priority tiers: three forward attributes        *)
(* without culture, one per priority, and the one query Eq "a".            *)
(***************************************************************************)

\* Number of building calls that may precede the comparisons in SpecTiers.
MaxTierOps == 5

\* Number of calls of compare in SpecTiers.
MaxTierCompares == 2

TierAttrInputs ==
    { [name |-> "en",  direction |-> "Forward", culture |-> NoCulture, priority |-> 0],
      [name |-> "any", direction |-> "Forward", culture |-> NoCulture, priority |-> 1],
      [name |-> "fr",  direction |-> "Forward", culture |-> NoCulture, priority |-> 2] }

TierValues == { <<"a">>, <<"b">> }

TierQueries ==
    { [culture |-> 0, words |-> <<WordQuery_new(<<"a">>, "Eq", "Optional", 0)>>] }

NextTiers ==
    \/ Build(MaxTierOps, TierAttrInputs, TierValues)
    \/ \E q \in TierQueries : Query(q)
    \/ \E lid \in DocIds, rid \in DocIds :
          Compare(lid, rid, MaxTierOps + MaxTierCompares)
    \/ DropResults

SpecTiers == Init /\ [][NextTiers]_vars

(***************************************************************************)
(* The public mutating calls with a history: last records, besides the     *)
(* call and its arguments, the searcher the call found.                    *)
(***************************************************************************)

\* Number of public calls explored in SpecFrame.
MaxFrameOps == 4

\* Registrations of three ids, the id "en" being offered with two different
\* AttrProps.
FrameAttrInputs ==
    { a \in AttrInputs : a.name \in {"en", "any", "bk"} }
    \cup { [name |-> "en", direction |-> "Backward", culture |-> 1, priority |-> 1] }

FrameNames == { a.name : a \in FrameAttrInputs } \cup {UnknownName}

FrameValues == { <<>>, <<"a">>, <<"a", " ", "b">> }

\* set_attribute(a.name, a) on the searcher before, having returned r.
FrameSetAttribute(a, before, r) ==
    /\ Install(r.s)
    /\ passed' = passed
    /\ last' = [op |-> "set_attribute", name |-> a.name, attr |-> a,
                ret |-> r.ret, before |-> before]

\* remove_attr(n) on the searcher before, having returned r.
FrameRemoveAttr(n, before, r) ==
    /\ Install(r.s)
    /\ passed' = IF r.ret
                 THEN [d \in DocIds |-> [passed[d] EXCEPT ![n] = NoValue]]
                 ELSE passed
    /\ last' = [op |-> "remove_attr", name |-> n, ret |-> r.ret,
                before |-> before]

\* insert_doc_attribute(d, n, v) on the searcher before.
FrameInsertDocAttribute(d, n, v, before) ==
    /\ Install(Searcher_insert_doc_attribute(before, d, n, v))
    /\ passed' = IF AttrPos(before.attrs, n) # 0
                 THEN [passed EXCEPT ![d][n] = v] ELSE passed
    /\ last' = [op |-> "insert_doc_attribute", doc |-> d, name |-> n,
                value |-> v, before |-> before]

\* remove_doc(d) on the searcher before.
FrameRemoveDoc(d, before) ==
    /\ Install(Searcher_remove_doc(before, d))
    /\ passed' = [passed EXCEPT ![d] = [n \in AttrNames |-> NoValue]]
    /\ last' = [op |-> "remove_doc", doc |-> d, before |-> before]

NextFrame ==
    /\ ops < MaxFrameOps
    /\ ops' = ops + 1
    /\ comparer' = comparer
    /\ \/ \E a \in FrameAttrInputs :
             FrameSetAttribute(a, Cur, Searcher_set_attribute(Cur, a.name, a))
       \/ \E n \in FrameNames :
             FrameRemoveAttr(n, Cur, Searcher_remove_attr(Cur, n))
       \/ \E d \in DocIds, n \in FrameNames, v \in FrameValues :
             FrameInsertDocAttribute(d, n, v, Cur)
       \/ \E d \in DocIds : FrameRemoveDoc(d, Cur)

SpecFrame == Init /\ [][NextFrame]_vars

(***************************************************************************)
(* Seven calls on two documents with the attributes fr, bk and bk0 and one *)
(* value: long enough for a word to be written to the table of a culture   *)
(* that is dropped later, and for the interner to release it afterwards.   *)
(***************************************************************************)

\* Number of public calls explored in SpecRelease.
MaxReleaseOps == 7

ReleaseValues == { <<"A", "b">> }

NextRelease ==
    Mutate(MaxReleaseOps, DeepAttrInputs, { a.name : a \in DeepAttrInputs },
           DocIds, ReleaseValues)

SpecRelease == Init /\ [][NextRelease]_vars

(***************************************************************************)
(* The query parser: SearchQuery::new on every input text up to a length.  *)
(***************************************************************************)

\* Largest number of characters of a parsed text.
MaxQueryLen == 5

ParseChars == { "a", "B", "*", " ", "-", "'" }

ParseInputs == UNION { [1..n -> ParseChars] : n \in 0..MaxQueryLen }

InitParse ==
    /\ attrs = Searcher_new.attrs
    /\ forward = Searcher_new.forward
    /\ backward = Searcher_new.backward
    /\ passed = PassedInit
    /\ \E s \in ParseInputs : last = [op |-> "text", text |-> s]
    /\ ops = 0
    /\ comparer = Comparer_new

\* SearchQuery::new(0, text)
Parse ==
    /\ last.op = "text"
    /\ last' = [op |-> "parse", text |-> last.text,
                query |-> SearchQuery_new(0, last.text)]
    /\ UNCHANGED <<attrs, forward, backward, passed, ops, comparer>>

SpecParse == InitParse /\ [][Parse]_vars

\* IndexToQuery::add as a function of its own: a fresh IndexToQuery receives
\* up to MaxAdds match entries, each of a word of AddWords found at a distance
\* of 0..MaxAddDistance by the query word of index 0..MaxAddIndex; last.adds
\* keeps the calls made, in order.
MaxAdds == 3
MaxAddDistance == 1
MaxAddIndex == 2
AddWords == { "a", "b" }

\* The posting list of an indexed word: a word has one list per table.
AddDocs(w) == IF w = "a" THEN {0} ELSE {0, 1}

InitAdd ==
    /\ attrs = Searcher_new.attrs
    /\ forward = Searcher_new.forward
    /\ backward = Searcher_new.backward
    /\ passed = PassedInit
    /\ last = [op |-> "adds", itq |-> IndexToQuery_default, adds |-> <<>>]
    /\ ops = 0
    /\ comparer = Comparer_new

\* index_to_query.add(query, match_entry)
Add ==
    /\ last.op = "adds"
    /\ Len(last.adds) < MaxAdds
    /\ \E w \in AddWords, d \in 0..MaxAddDistance, i \in 0..MaxAddIndex :
          last' = [op   |-> "adds",
                   itq  |-> IndexToQuery_add(last.itq, [index |-> i],
                                [distance |-> d, docs |-> AddDocs(w), word |-> w]),
                   adds |-> Append(last.adds,
                                [word |-> w, distance |-> d, query_index |-> i])]
    /\ UNCHANGED <<attrs, forward, backward, passed, ops, comparer>>

SpecAdd == InitAdd /\ [][Add]_vars

\* ProximitySeqScore as a function of its own: the IndexToQuery of a query of
\* two words, "a" and "b" in either order, and the word lists of two
\* attributes, of at most MaxProxWords words each; Score updates a default
\* score from each list and compares the two.
MaxProxWords == 3
ProxWords == { "a", "b", "x" }
ProxLists == UNION { [1..n -> ProxWords] : n \in 0..MaxProxWords }

\* The index of the query whose first word is first and whose other word is
\* second, each matching the indexed word of its own text at distance 0.
ProxIndex(first, second) ==
    IndexToQuery_add(
        IndexToQuery_add(IndexToQuery_default, [index |-> 0],
                         [distance |-> 0, docs |-> {0}, word |-> first]),
        [index |-> 1], [distance |-> 0, docs |-> {0}, word |-> second])

InitProx ==
    /\ attrs = Searcher_new.attrs
    /\ forward = Searcher_new.forward
    /\ backward = Searcher_new.backward
    /\ passed = PassedInit
    /\ \E l \in ProxLists, r \in ProxLists,
          ix \in { ProxIndex("a", "b"), ProxIndex("b", "a") } :
          last = [op |-> "lists", index |-> ix, left |-> l, right |-> r]
    /\ ops = 0
    /\ comparer = Comparer_new

\* left.update(index, words), right.update(index, words), left.cmp(&right)
Score ==
    /\ last.op = "lists"
    /\ last' = [op    |-> "scored",
                left  |-> ProximitySeqScore_update(ProximitySeqScore_default,
                                                   last.index, last.left),
                right |-> ProximitySeqScore_update(ProximitySeqScore_default,
                                                   last.index, last.right),
                o     |-> ProximitySeqScore_cmp(
                              ProximitySeqScore_update(ProximitySeqScore_default,
                                                       last.index, last.left),
                              ProximitySeqScore_update(ProximitySeqScore_default,
                                                       last.index, last.right))]
    /\ UNCHANGED <<attrs, forward, backward, passed, ops, comparer>>

SpecProx == InitProx /\ [][Score]_vars

(***************************************************************************)
(* A searcher whose attributes declare no culture: three forward           *)
(* attributes and a backward one, one document.                            *)
(***************************************************************************)
MaxPlainOps == 6

PlainAttrInputs ==
    { [a EXCEPT !.culture = NoCulture] :
          a \in { x \in AttrInputs : x.name \in {"en", "fr", "any", "bk"} } }

PlainNames == { a.name : a \in PlainAttrInputs }

NextPlain ==
    /\ ops < MaxPlainOps
    /\ ops' = ops + 1
    /\ comparer' = comparer
    /\ \/ \E a \in PlainAttrInputs :
             FrameSetAttribute(a, Cur, Searcher_set_attribute(Cur, a.name, a))
       \/ \E n \in PlainNames :
             FrameRemoveAttr(n, Cur, Searcher_remove_attr(Cur, n))
       \/ \E d \in DeepDocIds, n \in PlainNames, v \in FrameValues :
             FrameInsertDocAttribute(d, n, v, Cur)
       \/ \E d \in DeepDocIds : FrameRemoveDoc(d, Cur)

SpecPlain == Init /\ [][NextPlain]_vars

(***************************************************************************)
(* WordIndex::starts_with as a function of its own: a word table of at     *)
(* most MaxStartsRows rows, built by insert_word_doc from words of at most *)
(* MaxStartsLen letters, the sentinel word and a word of LongWordLen       *)
(* letters; the string looked up is one of the short words, the sentinel   *)
(* or the empty string.                                                    *)
(***************************************************************************)
MaxStartsLen == 2
MaxStartsRows == 3
LongWordLen == 257

LongWord == [i \in 1..LongWordLen |-> "a"]

StartsStrings ==
    UNION { [1..n -> {"a", "b"}] : n \in 0..MaxStartsLen } \cup { <<"°">> }

StartsWords == (StartsStrings \ { <<>> }) \cup { LongWord }

RECURSIVE TableOf(_)
\* The table after insert_word_doc of every word of the set, each for the
\* doc of its length modulo 2.
TableOf(words) ==
    IF words = {} THEN WordIndex_new
    ELSE LET w == CHOOSE x \in words : TRUE
         IN  WordIndex_insert_word_doc(TableOf(words \ {w}), w, Len(w) % 2)

InitStarts ==
    /\ attrs = Searcher_new.attrs
    /\ forward = Searcher_new.forward
    /\ backward = Searcher_new.backward
    /\ passed = PassedInit
    /\ \E ws \in { x \in SUBSET StartsWords : Cardinality(x) <= MaxStartsRows },
          s \in StartsStrings :
          last = [op |-> "table", wi |-> TableOf(ws), word |-> s]
    /\ ops = 0
    /\ comparer = Comparer_new

\* word_index.starts_with(word, &mut out) on an empty out
StartsWith ==
    /\ last.op = "table"
    /\ last' = [op |-> "starts_with", wi |-> last.wi, word |-> last.word,
                out |-> WordIndex_starts_with(last.wi, last.word)]
    /\ UNCHANGED <<attrs, forward, backward, passed, ops, comparer>>

SpecStarts == InitStarts /\ [][StartsWith]_vars

(***************************************************************************)
(* A forward and a backward index built from the same insertions: the      *)
(* attributes "any" and "bk" are registered together and every value is    *)
(* inserted into both; a query is answered by both indexes.                *)
(***************************************************************************)
MaxMirrorOps == 5

MirrorValues == { <<>>, <<"a", "b">>, <<"b", "a">>, <<"a", " ", "b", "a", "b">> }

MirrorTexts == { <<"a">>, <<"b">>, <<"a", "b">> }

MirrorOps == { "Eq", "StartsWith", "EndsWith", "Contains" }

\* set_attribute("any", ..) then set_attribute("bk", ..), on a new searcher
MirrorRegister ==
    /\ Len(attrs) = 0
    /\ \E a \in AttrInputs, b \in AttrInputs :
          /\ a.name = "any"
          /\ b.name = "bk"
          /\ Install(Searcher_set_attribute(
                         Searcher_set_attribute(Cur, a.name, a).s, b.name, b).s)
    /\ last' = [op |-> "set_attribute"]
    /\ passed' = passed

\* insert_doc_attribute(d, "any", v) then insert_doc_attribute(d, "bk", v)
MirrorInsert(d, v) ==
    /\ Len(attrs) = 2
    /\ Install(Searcher_insert_doc_attribute(
                   Searcher_insert_doc_attribute(Cur, d, "any", v), d, "bk", v))
    /\ last' = [op |-> "insert_doc_attribute", doc |-> d, value |-> v]
    /\ passed' = [passed EXCEPT ![d]["any"] = v, ![d]["bk"] = v]

\* remove_doc(d)
MirrorRemoveDoc(d) ==
    /\ Len(attrs) = 2
    /\ Install(Searcher_remove_doc(Cur, d))
    /\ last' = [op |-> "remove_doc", doc |-> d]
    /\ passed' = [passed EXCEPT ![d] = [n \in AttrNames |-> NoValue]]

\* forward.query(q, culture, out) and backward.query(q, culture, out), each on
\* an empty out
MirrorQuery(q) ==
    /\ Len(attrs) = 2
    /\ last' = [op |-> "query", q |-> q,
                fwd |-> Index_query(forward, q, 0),
                bwd |-> Index_query(backward, q, 0)]
    /\ UNCHANGED <<attrs, forward, backward, passed>>

\* The words of at most two characters of a Fuzzy query.
ShortTexts == { <<>>, <<"a">>, <<"b">>, <<"a", "b">>, <<"b", "a">> }

\* The Fuzzy query of a short word on both indexes, with the automata
\* q.dfa() and q.backward_dfa() it built, and the StartsWith query of the
\* same word on both indexes.
MirrorFuzzy(t) ==
    /\ Len(attrs) = 2
    /\ last' = [op   |-> "fuzzy", text |-> t,
                dfa  |-> init_dfa(t, WordQuery_new(t, "Fuzzy", "Optional", 0).len),
                backward_dfa |->
                    init_dfa(Rev(t), WordQuery_new(t, "Fuzzy", "Optional", 0).len),
                fwd  |-> Index_query(forward, WordQuery_new(t, "Fuzzy", "Optional", 0), 0),
                bwd  |-> Index_query(backward, WordQuery_new(t, "Fuzzy", "Optional", 0), 0),
                fwd_prefix |->
                    Index_query(forward, WordQuery_new(t, "StartsWith", "Optional", 0), 0),
                bwd_prefix |->
                    Index_query(backward, WordQuery_new(t, "StartsWith", "Optional", 0), 0)]
    /\ UNCHANGED <<attrs, forward, backward, passed>>

NextMirror ==
    /\ ops < MaxMirrorOps
    /\ ops' = ops + 1
    /\ comparer' = comparer
    /\ \/ MirrorRegister
       \/ \E d \in DocIds, v \in MirrorValues : MirrorInsert(d, v)
       \/ \E d \in DocIds : MirrorRemoveDoc(d)
       \/ \E t \in MirrorTexts, o \in MirrorOps :
             MirrorQuery(WordQuery_new(t, o, "Optional", 0))
       \/ \E t \in ShortTexts : MirrorFuzzy(t)

SpecMirror == Init /\ [][NextMirror]_vars

(***************************************************************************)
(* The tokenizer as a function of its own: every value of at most          *)
(* MaxValueLen characters over a letter, a digit, the two sentinels, a     *)
(* space and a separator is tokenized by insert_doc_word_list into one     *)
(* empty forward table.                                                    *)
(***************************************************************************)
MaxValueLen == 3

ValueChars == { "a", "1", "#", "°", " ", "-" }

TokenValues == UNION { [1..n -> ValueChars] : n \in 0..MaxValueLen }

InitTokens ==
    /\ attrs = Searcher_new.attrs
    /\ forward = Searcher_new.forward
    /\ backward = Searcher_new.backward
    /\ passed = PassedInit
    /\ \E v \in TokenValues : last = [op |-> "value", value |-> v]
    /\ ops = 0
    /\ comparer = Comparer_new

\* insert_doc_word_list(&mut [WordIndex::new()], value, doc 0, .., Forward)
Tokenize ==
    /\ last.op = "value"
    /\ last' = [op |-> "tokens", value |-> last.value,
                word_list |-> insert_doc_word_list(<<WordIndex_new>>, StrIntern_new,
                                  [lo |-> 0, hi |-> 1], last.value, 0,
                                  "Forward").word_list]
    /\ UNCHANGED <<attrs, forward, backward, passed, ops, comparer>>

SpecTokens == InitTokens /\ [][Tokenize]_vars

(***************************************************************************)
(* The memoized tier table.  last.cell is the OnceCell attrs_priorities of *)
(* the searcher; one attribute declares the culture u8::MAX.  Where the    *)
(* sum max + 1 overflows, a build with overflow checks panics inside       *)
(* get_or_init and leaves the cell empty, a build without them wraps.      *)
(***************************************************************************)
MaxMemoOps == 4

MemoAttrInputs ==
    { a \in AttrInputs : a.name \in {"en", "any", "bk"} }
    \cup { [name |-> "fr", direction |-> "Forward", culture |-> u8_MAX, priority |-> 0] }

MemoNames == { a.name : a \in MemoAttrInputs }

MemoCultures == { 0, 1, u8_MAX }

InitMemo ==
    /\ attrs = Searcher_new.attrs
    /\ forward = Searcher_new.forward
    /\ backward = Searcher_new.backward
    /\ passed = PassedInit
    /\ last = [op |-> "new", cell |-> NoCell]
    /\ ops = 0
    /\ comparer = Comparer_new

\* set_attribute(a.name, a) having returned r; reindex_attribute empties the
\* cell when the attribute is new.
MemoSetAttribute(a, r) ==
    /\ Install(r.s)
    /\ last' = [op |-> "set_attribute", name |-> a.name, ret |-> r.ret,
                cell |-> IF r.ret THEN NoCell ELSE last.cell]

\* remove_attr(n) having returned r; reindex_attribute empties the cell when
\* the attribute was registered.
MemoRemoveAttr(n, r) ==
    /\ Install(r.s)
    /\ last' = [op |-> "remove_attr", name |-> n, ret |-> r.ret,
                cell |-> IF r.ret THEN NoCell ELSE last.cell]

\* attrs_priorities(culture): checked is whether the build checks overflows.
MemoAttrsPriorities(culture, checked) ==
    /\ UNCHANGED <<attrs, forward, backward>>
    /\ IF checked /\ ~last.cell.some /\ count_overflows(Cur)
       THEN last' = [op |-> "attrs_priorities", culture |-> culture,
                     panicked |-> TRUE, ret |-> <<>>, cell |-> NoCell]
       ELSE last' = [op |-> "attrs_priorities", culture |-> culture,
                     panicked |-> FALSE,
                     ret  |-> by_cultures_get(get_or_init(last.cell, Cur).table, culture),
                     cell |-> get_or_init(last.cell, Cur)]

NextMemo ==
    /\ ops < MaxMemoOps
    /\ ops' = ops + 1
    /\ comparer' = comparer
    /\ passed' = passed
    /\ \/ \E a \in MemoAttrInputs :
             MemoSetAttribute(a, Searcher_set_attribute(Cur, a.name, a))
       \/ \E n \in MemoNames : MemoRemoveAttr(n, Searcher_remove_attr(Cur, n))
       \/ \E c \in MemoCultures, checked \in BOOLEAN : MemoAttrsPriorities(c, checked)

SpecMemo == InitMemo /\ [][NextMemo]_vars


(***************************************************************************)
(* Properties.                                                             *)
(***************************************************************************)

RECURSIVE TokensFrom(_, _)
TokensFrom(value, pos) ==
    LET t == find_next_word(value, pos)
    IN  IF t.word = <<>> THEN <<>> ELSE <<t.word>> \o TokensFrom(value, t.pos)

\* The tokens of an attribute value, in order.
Tokens(value) == TokensFrom(value, 0)

\* The words an attribute of the given direction shows for a passed value.
ExpectedWords(value, direction) ==
    IF value = NoValue THEN <<>>
    ELSE LET t == Tokens(value)
         IN  [i \in 1..Len(t) |-> directional_word(t[i], direction)]

\* Every token the offered values can produce.
AllTokens == UNION { Elems(Tokens(v)) : v \in Values }

Indices == {forward, backward}

\* The rows of all tables of an orientation.
Rows(ix) ==
    UNION { Elems(ix.per_culture[c]) : c \in 1..Len(ix.per_culture) }

\* C1: for every registered attribute a and every doc d, get_doc_attr_words(d, a)
\* yields the tokens, in order and reversed for a Backward attribute, of the value
\* last passed to insert_doc_attribute(d, a, .), and nothing if there was none.
C1_GetDocAttrWordsIsLastValue ==
    \A d \in DocIds : \A i \in 1..Len(attrs) :
        Searcher_get_doc_attr_words(Cur, d, attrs[i].name)
            = ExpectedWords(passed[d][attrs[i].name], attrs[i].direction)

I1(ix) ==
    \A d \in 1..Len(ix.docs) : \A i \in 1..Len(ix.docs[d]) :
        \A w \in Elems(ix.docs[d][i]) :
            \E r \in Rows(ix) : r.word = w /\ (d - 1) \in r.docs

\* C2: invariant I1, every word of a per-document attribute word list has a row
\* in some word table of that orientation, and the row holds the document's id.
C2_I1_DocWordsHaveRows == I1(forward) /\ I1(backward)

I3(ix) == Elems(ix.word_intern) = { r.word : r \in Rows(ix) }

\* C3: invariant I3, a word is held by an orientation's interner if and only if
\* some word table of that orientation has a row for it.
C3_I3_InternedIffRow == I3(forward) /\ I3(backward)

\* The one-word query for w with operator Eq.
EqQuery(w) == WordQuery_new(w, "Eq", "Optional", 0)

\* The docs matched in one orientation by a one-word query.
MatchedDocs(ix, q, culture) ==
    LET out == Index_query(ix, q, culture)
    IN  UNION { out[i].docs : i \in 1..Len(out) }

\* Doc d holds word w, as passed by the caller, in a registered attribute of the
\* direction whose declared culture is one of cultures.
HoldsWord(d, w, direction, cultures) ==
    \E i \in 1..Len(attrs) :
        /\ attrs[i].direction = direction
        /\ attrs[i].culture \in cultures
        /\ passed[d][attrs[i].name] # NoValue
        /\ w \in Elems(Tokens(passed[d][attrs[i].name]))

\* C4: culture isolation, where an orientation has a word table for culture c an
\* Eq query for w under culture c matches doc d only if d holds w in an attribute
\* of that orientation that declares no culture or declares culture c.
C4_CultureIsolation ==
    \A ix \in Indices : \A c \in 0..(Len(ix.per_culture) - 1) :
        \A w \in AllTokens : \A d \in DocIds :
            d \in MatchedDocs(ix, EqQuery(w), c)
                => HoldsWord(d, w, ix.direction, {NoCulture, c})

\* C5: cultureless visibility, if doc d holds word w in a registered attribute
\* that declares no culture, every per-culture word table of the attribute's
\* orientation has a row for w containing d.
C5_CulturelessVisibility ==
    \A ix \in Indices : \A w \in AllTokens : \A d \in DocIds :
        HoldsWord(d, w, ix.direction, {NoCulture})
            => \A c \in 1..Len(ix.per_culture) :
                  \E r \in Elems(ix.per_culture[c]) :
                      r.word = directional_word(w, ix.direction) /\ d \in r.docs

\* Doc d has no word list and is in no row of the orientation.
DocGone(ix, d) ==
    /\ \A a \in 0..Len(attrs) : Index_get_doc_attribute_words(ix, d, a) = <<>>
    /\ \A r \in Rows(ix) : d \notin r.docs

\* C6: after remove_doc(d) returns, in both orientations every attribute word
\* list of d is empty and no word-table row of any culture contains d.
C6_RemoveDocClearsDoc ==
    last.op = "remove_doc" => DocGone(forward, last.doc) /\ DocGone(backward, last.doc)

RECURSIVE Reinsert(_, _, _, _)
\* insert_doc_attribute(d, n, vals[n]) for the registered attributes from
\* position i of the attribute map that have a value in vals.
Reinsert(s, d, vals, i) ==
    IF i > Len(s.attrs) THEN s
    ELSE LET n == s.attrs[i].name
         IN  Reinsert(IF vals[n] = NoValue THEN s
                      ELSE Searcher_insert_doc_attribute(s, d, n, vals[n]),
                      d, vals, i + 1)

\* The same word lists, holes apart, the same tables and the same interner.
SameIndex(ix1, ix2) ==
    /\ ix1.per_culture = ix2.per_culture
    /\ ix1.word_intern = ix2.word_intern
    /\ \A d \in 0..Max(Len(ix1.docs), Len(ix2.docs)) :
          \A a \in 0..Cardinality(AttrInputs) :
             Index_get_doc_attribute_words(ix1, d, a)
                = Index_get_doc_attribute_words(ix2, d, a)

RoundTrip(d) ==
    LET s2 == Reinsert(Searcher_remove_doc(Cur, d), d, passed[d], 1)
    IN  SameIndex(s2.forward, forward) /\ SameIndex(s2.backward, backward)

\* C7: P6 round trip, remove_doc(d) followed by re-inserting each of d's attribute
\* values restores the word lists, the word tables and the interners.
C7_RemoveReinsertRoundTrip == \A d \in DocIds : RoundTrip(d)

\* The entries a query word matches in both orientations.
Matches(q, culture) ==
    Index_query(forward, q, culture) \o Index_query(backward, q, culture)

\* The docs of the index words a query word matches, in either orientation.
BothMatchedDocs(q, culture) ==
    MatchedDocs(forward, q, culture) \cup MatchedDocs(backward, q, culture)

\* The position of the first Required word that matches nothing, 0 if none.
BreakAt(query) ==
    LET U == { i \in 1..Len(query.words) :
                 /\ query.words[i].presence = "Required"
                 /\ Matches(query.words[i], query.culture) = <<>> }
    IN  IF U = {} THEN 0 ELSE CHOOSE i \in U : \A j \in U : i <= j

\* The positions of the words the executor evaluates.
Evaluated(query) ==
    IF BreakAt(query) = 0 THEN 1..Len(query.words) ELSE 1..BreakAt(query)

\* The set accumulated from the evaluated words of a presence.
Accumulated(query, presence) ==
    UNION { BothMatchedDocs(query.words[i], query.culture) :
            i \in { j \in Evaluated(query) : query.words[j].presence = presence } }

RequiredExists(query) ==
    \E i \in Evaluated(query) : query.words[i].presence = "Required"

\* The required set: the docs held by every index word that every Required
\* word matches, and no doc once a Required word matches nothing.
RequiredSet(query) ==
    IF BreakAt(query) # 0 THEN {}
    ELSE { d \in DocIds :
             \A i \in 1..Len(query.words) :
                query.words[i].presence = "Required" =>
                   \A k \in 1..Len(Matches(query.words[i], query.culture)) :
                      d \in Matches(query.words[i], query.culture)[k].docs }

\* C8 as stated: the doc set is (optional \cup required) - denied when both an
\* optional and a required set exist, the existing one minus denied when only one
\* does, and empty when neither does.
C8_ResultIsUnionMinusDenied ==
    last.op = "query" =>
        LET q   == last.query
            opt == Accumulated(q, "Optional")
            den == Accumulated(q, "Denied")
        IN  last.results.doc_ids =
                IF opt # {} /\ RequiredExists(q) THEN (opt \cup RequiredSet(q)) \ den
                ELSE IF RequiredExists(q) THEN RequiredSet(q) \ den
                ELSE opt \ den

\* C8 amended: the doc set is (optional \cap required) - denied when the optional
\* set is not empty and a required set exists, required - denied when the optional
\* set is empty and a required set exists, optional - denied when no required set
\* exists (empty when the optional set is empty too).
C8_ResultIsIntersectionMinusDenied ==
    last.op = "query" =>
        LET q   == last.query
            opt == Accumulated(q, "Optional")
            den == Accumulated(q, "Denied")
        IN  last.results.doc_ids =
                IF opt # {} /\ RequiredExists(q) THEN (opt \cap RequiredSet(q)) \ den
                ELSE IF RequiredExists(q) THEN RequiredSet(q) \ den
                ELSE opt \ den

\* A query whose optional set and required set both exist and differ, with a
\* denied doc: the result is their intersection less the denied doc.
C8_Witness ==
    /\ last.op = "query"
    /\ Accumulated(last.query, "Optional") # {}
    /\ RequiredExists(last.query)
    /\ RequiredSet(last.query) # {}
    /\ RequiredSet(last.query) # Accumulated(last.query, "Optional")
    /\ last.results.doc_ids # {}
    /\ last.results.doc_ids # Accumulated(last.query, "Optional")

\* C9: for a query made only of Required words, a document is in the result if
\* and only if for every query word it holds at least one index word matched by
\* that word.
C9_RequiredAdmitsAnyMatchedWord ==
    (/\ last.op = "query"
     /\ Len(last.query.words) > 0
     /\ \A i \in 1..Len(last.query.words) : last.query.words[i].presence = "Required")
        => \A d \in DocIds :
              d \in last.results.doc_ids
                 <=> \A i \in 1..Len(last.query.words) :
                        d \in BothMatchedDocs(last.query.words[i], last.query.culture)

\* C10: no document in the doc set of an index word matched by a Denied query
\* word, in either orientation, is in the result, wherever the Denied word stands.
C10_DeniedDocsExcluded ==
    last.op = "query" =>
        \A i \in 1..Len(last.query.words) :
            last.query.words[i].presence = "Denied" =>
                BothMatchedDocs(last.query.words[i], last.query.culture)
                    \cap last.results.doc_ids = {}

\* A Denied word takes a doc out of a result that keeps another doc.
C10_Witness ==
    /\ last.op = "query"
    /\ last.results.doc_ids # {}
    /\ \E i \in 1..Len(last.query.words) :
          /\ last.query.words[i].presence = "Denied"
          /\ \E j \in 1..Len(last.query.words) :
                /\ last.query.words[j].presence = "Optional"
                /\ BothMatchedDocs(last.query.words[i], last.query.culture)
                      \cap BothMatchedDocs(last.query.words[j], last.query.culture) # {}

\* C11: when some Required query word matches no index word in either
\* orientation, the result holds no document, whatever the other words are and
\* wherever the unmatched word stands.
C11_UnmatchedRequiredEmptiesResult ==
    last.op = "query" =>
        ((\E i \in 1..Len(last.query.words) :
             /\ last.query.words[i].presence = "Required"
             /\ Matches(last.query.words[i], last.query.culture) = <<>>)
            => last.results.doc_ids = {})

\* An unmatched Required word standing after an Optional word that matches a
\* document: the result is empty all the same.
C11_Witness ==
    /\ last.op = "query"
    /\ Len(last.query.words) = 2
    /\ last.query.words[1].presence = "Optional"
    /\ BothMatchedDocs(last.query.words[1], last.query.culture) # {}
    /\ last.query.words[2].presence = "Required"
    /\ Matches(last.query.words[2], last.query.culture) = <<>>
    /\ last.results.doc_ids = {}

\* compare(lid, r, rid, r) on the results in scope, from the comparer as the
\* thread holds it: the Ordering returned.
CompareNow(lid, rid) ==
    Comparer_compare(comparer, Cur, lid, last.results, rid, last.results).o

\* C12: the comparator is reflexive: under any results in scope, comparing a
\* document with itself returns Equal.  Stated for the documents of the
\* results, the ones a caller sorts.
C12_CompareReflexive ==
    ResultsAlive => \A d \in last.results.doc_ids : CompareNow(d, d) = "Equal"

\* compare(lid, r, rid, r) called after a call of compare that returned first:
\* its Ordering is the reverse of the first call's.
ReversesCall(first, lid, rid) ==
    Comparer_compare(first.comparer, Cur, lid, last.results, rid, last.results).o
        = Ordering_reverse(first.o)

\* C13: the comparator is antisymmetric: under any results in scope,
\* compare(a, r, b, r) followed by compare(b, r, a, r) return reverse
\* Orderings (Less and Greater swapped, Equal kept).  Stated for two distinct
\* documents of the results.
C13_CompareAntisymmetric ==
    ResultsAlive =>
        \A a \in last.results.doc_ids : \A b \in last.results.doc_ids \ {a} :
            ReversesCall(Comparer_compare(comparer, Cur, a, last.results,
                                          b, last.results), b, a)

\* The IndexToQuery entries of the words document d holds in the attribute
\* (direction, index) da, under the results in scope.
AttrEntries(d, da, res) ==
    { res.index_to_query.map[w] :
        w \in Elems(Index_get_doc_attribute_words(res.index, d, da.index))
                 \cap DOMAIN res.index_to_query.map }

\* The IndexToQuery entries of the words document d holds in the attributes of
\* a tier.
TierEntries(d, tier) ==
    UNION { AttrEntries(d, tier.attrs[j],
                direction_index_results(Cur, last.results, tier.attrs[j].direction)) :
            j \in 1..Len(tier.attrs) }

\* The query words (their indices) document d matches in a tier.
MatchedWords(d, tier) == { e.query_index : e \in TierEntries(d, tier) }

\* The best distance of document d on the query word i in a tier.
BestDistance(d, tier, i) ==
    CHOOSE m \in { e.distance : e \in { x \in TierEntries(d, tier) : x.query_index = i } } :
        \A e \in { x \in TierEntries(d, tier) : x.query_index = i } : m <= e.distance

\* The tiers of the results in scope.
Tiers == attrs_priorities(Cur, last.results.culture)

\* Neither a nor b matches a query word in a tier before position k.
NoMatchBefore(a, b, tiers, k) ==
    \A j \in 1..(k - 1) : MatchedWords(a, tiers[j]) = {} /\ MatchedWords(b, tiers[j]) = {}

\* In the tier, a matches every query word b matches, at the same best
\* distance, and more query words besides.
MatchesMoreWords(a, b, tier) ==
    /\ MatchedWords(b, tier) \subseteq MatchedWords(a, tier)
    /\ MatchedWords(b, tier) # MatchedWords(a, tier)
    /\ \A i \in MatchedWords(b, tier) :
          BestDistance(a, tier, i) = BestDistance(b, tier, i)

\* C14: in the first tier where either document matches, when both have equal
\* best distances on the query words both match, the document matching more
\* distinct query words compares Less than the one matching fewer.
C14_MoreMatchedWordsCompareLess ==
    ResultsAlive =>
        \A a \in last.results.doc_ids : \A b \in last.results.doc_ids \ {a} :
            \A k \in 1..Len(Tiers) :
                (NoMatchBefore(a, b, Tiers, k) /\ MatchesMoreWords(a, b, Tiers[k]))
                    => CompareNow(a, b) = "Less"

\* The pairs <<best distance, query word>> of document d in a tier.
BestPairs(d, tier) ==
    { <<BestDistance(d, tier, i), i>> : i \in MatchedWords(d, tier) }

\* The pair <<x, i>> stands before <<y, j>> in sorted distance order.
PairBefore(p, q) == p[1] < q[1] \/ (p[1] = q[1] /\ p[2] < q[2])

\* The pair at position n (from 1) of the set P in sorted distance order.
PairAt(P, n) ==
    CHOOSE p \in P : Cardinality({ q \in P : PairBefore(q, p) }) = n - 1

\* Both documents match the same query words in the tier, and at the first
\* position of the sorted distance order where their pairs differ, the
\* distance of a is the smaller.
CloserOnFirstDifference(a, b, tier) ==
    /\ MatchedWords(a, tier) = MatchedWords(b, tier)
    /\ \E n \in 1..Cardinality(MatchedWords(a, tier)) :
          /\ \A m \in 1..(n - 1) :
                PairAt(BestPairs(a, tier), m) = PairAt(BestPairs(b, tier), m)
          /\ PairAt(BestPairs(a, tier), n)[1] < PairAt(BestPairs(b, tier), n)[1]

\* C15: in the first tier where either document matches, when both match the
\* same query words and the best distance of a on the first differing query
\* word, in sorted distance order, is the smaller, a compares Less than b.
C15_CloserMatchComparesLess ==
    ResultsAlive =>
        \A a \in last.results.doc_ids : \A b \in last.results.doc_ids \ {a} :
            \A k \in 1..Len(Tiers) :
                (NoMatchBefore(a, b, Tiers, k) /\ CloserOnFirstDifference(a, b, Tiers[k]))
                    => CompareNow(a, b) = "Less"

\* Document d matches query words in the tier at position k and in no other.
OnlyMatchIn(d, tiers, k) ==
    \A j \in 1..Len(tiers) : (MatchedWords(d, tiers[j]) # {}) <=> (j = k)

\* The only match of a lies in the tier at position k, the only match of b in
\* a later tier, and the two are equally good: the same query words at the
\* same best distances.
EarlierTierEquallyGood(a, b, tiers, k) ==
    /\ OnlyMatchIn(a, tiers, k)
    /\ \E m \in (k + 1)..Len(tiers) :
          /\ OnlyMatchIn(b, tiers, m)
          /\ BestPairs(a, tiers[k]) = BestPairs(b, tiers[m])

\* C16: tiers are compared in ascending priority and the first tier whose
\* scores differ decides: a document whose only match lies in an attribute of
\* priority p compares Less than a document whose only, equally good, match
\* lies in an attribute of a priority q > p.
C16_EarlierTierComparesLess ==
    ResultsAlive =>
        \A a \in last.results.doc_ids : \A b \in last.results.doc_ids \ {a} :
            \A k \in 1..Len(Tiers) :
                EarlierTierEquallyGood(a, b, Tiers, k) => CompareNow(a, b) = "Less"

\* The rows of a word table for the word w.
RowsOf(table, w) == { r \in Elems(table) : r.word = w }

I6(ix) ==
    \A w \in AllTokens :
        (\E d \in DocIds : HoldsWord(d, w, ix.direction, {NoCulture}))
            => \A c \in 1..Len(ix.per_culture) :
                  /\ RowsOf(ix.per_culture[c], directional_word(w, ix.direction)) # {}
                  /\ RowsOf(ix.per_culture[c], directional_word(w, ix.direction))
                        = RowsOf(ix.per_culture[1], directional_word(w, ix.direction))

\* C17: invariant I6, for each word a document holds in a registered attribute
\* without culture, every per-culture word table of the attribute's orientation
\* has the identical row for the word: the same doc set in every table.
C17_I6_CulturelessRowsIdentical == I6(forward) /\ I6(backward)

I2(ix) == \A r \in Rows(ix) : r.docs # {}

\* C18: invariant I2, after every public call no word table of either
\* orientation has a row whose doc set is empty.
C18_I2_NoEmptyRow == I2(forward) /\ I2(backward)

\* One registration, one insertion of words for document 0 and remove_doc(0):
\* the Doc of document 0 is still allocated, and the rows the insertion made
\* are gone with their last doc.
C18_Witness ==
    /\ last.op = "remove_doc"
    /\ last.doc = 0
    /\ ops = 3
    /\ Len(attrs) = 1
    /\ Len(forward.docs) = 1
    /\ Rows(forward) = {}

\* The rows of a word table stand in strictly ascending order of their words.
StrictlyAscending(table) ==
    \A i \in 1..(Len(table) - 1) : StrCmp(table[i].word, table[i + 1].word) < 0

\* binary_search finds each word of the orientation exactly when the table
\* has a row for it.
SearchFindsRows(table, direction) ==
    \A w \in AllTokens :
        WordIndex_binary_search(table, directional_word(w, direction)).ok
            <=> RowsOf(table, directional_word(w, direction)) # {}

I5(ix) ==
    \A c \in 1..Len(ix.per_culture) :
        /\ StrictlyAscending(ix.per_culture[c])
        /\ SearchFindsRows(ix.per_culture[c], ix.direction)

\* C19: invariant I5, after every public call every word table is sorted
\* strictly ascending by word, without duplicate rows, and binary search
\* finds a word exactly when a row for it exists.
C19_I5_TablesSorted == I5(forward) /\ I5(backward)

\* A backward table holds the rows of "a", "b" and "ba", the words of the
\* values "a b" and "Ab" reversed: whichever value came second, its rows were
\* placed among or after the rows of the first.
C19_Witness ==
    \E c \in 1..Len(backward.per_culture) :
        [i \in 1..Len(backward.per_culture[c]) |-> backward.per_culture[c][i].word]
            = << <<"a">>, <<"b">>, <<"b", "a">> >>

\* The positions in attrs of the attributes of a direction.
DirectionPositions(direction) ==
    { i \in 1..Len(attrs) : attrs[i].direction = direction }

I4(direction) ==
    /\ { attrs[i].index : i \in DirectionPositions(direction) }
          = 0..(Cardinality(DirectionPositions(direction)) - 1)
    /\ \A i \in DirectionPositions(direction) : \A j \in DirectionPositions(direction) :
          i < j => attrs[i].index < attrs[j].index

\* C20: invariant I4, after any sequence of set_attribute and remove_attr the
\* indices of the attributes of each direction are exactly 0..n-1, n the
\* number of attributes of the direction, without gap or duplicate and in
\* registration order.
C20_I4_DenseIndices == I4("Forward") /\ I4("Backward")

\* Two backward attributes were registered and "bk" was removed: "bk0", the
\* one left, carries the index 0.
C20_Witness ==
    /\ last.op = "remove_attr"
    /\ last.name = "bk"
    /\ last.ret
    /\ ops = 3
    /\ Len(attrs) = 1
    /\ attrs[1].name = "bk0"
    /\ attrs[1].index = 0

\* The (table, word) pairs of the rows of an orientation that hold doc d.
Membership(ix, d) ==
    UNION { { <<c, r.word>> : r \in { x \in Elems(ix.per_culture[c]) : d \in x.docs } } :
            c \in 1..Len(ix.per_culture) }

\* Doc d has the same word lists and is in the same rows in ix1 and ix2.
DocUntouched(ix1, ix2, d) ==
    /\ \A a \in 0..Cardinality(AttrInputs) :
          Index_get_doc_attribute_words(ix1, d, a)
             = Index_get_doc_attribute_words(ix2, d, a)
    /\ Membership(ix1, d) = Membership(ix2, d)

\* remove_doc(d) has left the documents other than d as they were in the
\* orientation, and the doc vector as long as it was.
OthersUntouched(ix1, ix2, d) ==
    /\ \A e \in (0..Max(Len(ix1.docs), Len(ix2.docs))) \ {d} :
          DocUntouched(ix1, ix2, e)
    /\ Len(ix2.docs) >= Len(ix1.docs)

\* C21: doc ids are stable, remove_doc(d) leaves the word lists of every other
\* document and its membership in every word-table row unchanged, renumbers no
\* document and does not shrink the doc vector.
C21_RemoveDocLeavesOthers ==
    last.op = "remove_doc" /\ "before" \in DOMAIN last
        => /\ OthersUntouched(last.before.forward, forward, last.doc)
           /\ OthersUntouched(last.before.backward, backward, last.doc)

\* remove_doc(0) has removed doc 0 from a row it shared with doc 1, and doc 1
\* keeps its word list and the row.
C21_Witness ==
    /\ last.op = "remove_doc" /\ "before" \in DOMAIN last
    /\ last.doc = 0
    /\ \E r \in Rows(last.before.forward) : r.docs = {0, 1}
    /\ \E r \in Rows(forward) : r.docs = {1}
    /\ Index_get_doc_attribute_words(last.before.forward, 0, 0) # <<>>
    /\ Index_get_doc_attribute_words(forward, 0, 0) = <<>>
    /\ Index_get_doc_attribute_words(forward, 1, 0) # <<>>

\* The call recorded in last, made once more on the current searcher.
InsertedAgain ==
    Searcher_insert_doc_attribute(Cur, last.doc, last.name, last.value)

\* C22: insert_doc_attribute is idempotent, a second call with the same doc,
\* attribute and value leaves the doc vectors, the word lists, the word tables
\* and the interners as the first call left them.
C22_InsertIdempotent ==
    last.op = "insert_doc_attribute" => InsertedAgain = Cur

\* The first call has changed the forward orientation: doc 1 got a list of two
\* words in an attribute whose table already had rows of doc 0.
C22_Witness ==
    /\ last.op = "insert_doc_attribute" /\ "before" \in DOMAIN last
    /\ last.doc = 1
    /\ AttrPos(attrs, last.name) # 0
    /\ Len(Searcher_get_doc_attr_words(Cur, 1, last.name)) = 2
    /\ Searcher_get_doc_attr_words(last.before, 1, last.name) = <<>>
    /\ \E r \in Rows(forward) : r.docs = {0, 1}
    /\ forward # last.before.forward

\* The attribute registered under name has the AttrProps a.
RegisteredAs(attrs_, name, a) ==
    /\ AttrPos(attrs_, name) # 0
    /\ attrs_[AttrPos(attrs_, name)].direction = a.direction
    /\ attrs_[AttrPos(attrs_, name)].culture = a.culture
    /\ attrs_[AttrPos(attrs_, name)].priority = a.priority

\* C23: set_attribute with a registered id returns false and changes nothing,
\* neither the attribute map nor the two indices; with a new id it returns
\* true and the attribute is registered with the given AttrProps.
C23_SetAttributeOnce ==
    last.op = "set_attribute" /\ "before" \in DOMAIN last
        => IF AttrPos(last.before.attrs, last.name) # 0
           THEN ~last.ret /\ Cur = last.before
           ELSE /\ last.ret
                /\ RegisteredAs(attrs, last.name, last.attr)
                /\ Len(attrs) = Len(last.before.attrs) + 1

\* set_attribute("en", Backward, culture 1, priority 1) has returned false on
\* a searcher where "en" is a Forward attribute of culture 0 that holds words.
C23_Witness ==
    /\ last.op = "set_attribute" /\ "before" \in DOMAIN last
    /\ last.name = "en" /\ last.attr.direction = "Backward"
    /\ ~last.ret
    /\ AttrPos(attrs, "en") # 0
    /\ attrs[AttrPos(attrs, "en")].direction = "Forward"
    /\ Searcher_get_doc_attr_words(Cur, 0, "en") # <<>>

\* set_attribute with a new id has returned true.
C23_WitnessNew ==
    /\ last.op = "set_attribute" /\ "before" \in DOMAIN last
    /\ last.ret
    /\ AttrPos(last.before.attrs, last.name) = 0
    /\ Len(attrs) = 2

\* Doc d has no word in any attribute of either orientation.
HoldsNothing(s, d) ==
    \A ix \in {s.forward, s.backward} : \A a \in 0..Cardinality(AttrInputs) :
        Index_get_doc_attribute_words(ix, d, a) = <<>>

\* Doc d is beyond the doc vector of the orientation or is an empty Doc.
Absent(ix, d) == d < Len(ix.docs) => ix.docs[d + 1] = <<>>

\* The two searchers have the same attribute map and, in both orientations,
\* the same word lists for every doc, the same tables and the same interner.
SameSearcher(s1, s2) ==
    /\ s1.attrs = s2.attrs
    /\ SameIndex(s1.forward, s2.forward)
    /\ SameIndex(s1.backward, s2.backward)

\* C24: operations on unknown identifiers change nothing.  insert_doc_attribute
\* with an unregistered name and remove_attr of an unknown name, which returns
\* false, leave the searcher as it was; so does remove_doc of an absent doc,
\* and remove_doc of a doc whose word lists are all empty leaves the attribute
\* map, every word list, every word table and both interners as they were.
C24_UnknownIdsAreNoOps ==
    "before" \in DOMAIN last
        => /\ last.op = "insert_doc_attribute"
                  /\ AttrPos(last.before.attrs, last.name) = 0
              => Cur = last.before
           /\ last.op = "remove_attr" /\ AttrPos(last.before.attrs, last.name) = 0
              => ~last.ret /\ Cur = last.before
           /\ last.op = "remove_doc" /\ Absent(last.before.forward, last.doc)
                  /\ Absent(last.before.backward, last.doc)
              => Cur = last.before
           /\ last.op = "remove_doc" /\ HoldsNothing(last.before, last.doc)
              => SameSearcher(last.before, Cur)

\* insert_doc_attribute with the unregistered name has been called on a
\* searcher that has an attribute and a doc with words.
C24_Witness ==
    /\ last.op = "insert_doc_attribute" /\ "before" \in DOMAIN last
    /\ last.name = UnknownName
    /\ last.value # <<>>
    /\ Len(attrs) = 1
    /\ Rows(forward) # {}
    /\ HoldsNothing(Cur, last.doc)

\* remove_doc(1) has been called when doc 1 held an attribute whose word list
\* had been emptied.
C24_WitnessEmptiedDoc ==
    /\ last.op = "remove_doc" /\ "before" \in DOMAIN last
    /\ last.doc = 1
    /\ HoldsNothing(last.before, 1)
    /\ ~Absent(last.before.forward, 1)

\* The cultures a query may carry: those of the registrations and one more.
QueryCultures == 0..2

\* The one-word queries, one per text and operator.
OneWordQueries ==
    { WordQuery_new(t, o, "Optional", 0) : t \in QueryTexts, o \in QueryOps }

\* The docs of the rows of a table for the word w.
TableDocs(table, w) == UNION { r.docs : r \in { x \in Elems(table) : x.word = w } }

\* The entries of query word q on the one table, whatever the culture.
OnTable(ix, table, q) == Index_query([ix EXCEPT !.per_culture = <<table>>], q, 0)

\* Query word q under culture c is answered from the given table.
AnsweredFrom(ix, table, c) ==
    /\ \A q \in OneWordQueries : Index_query(ix, q, c) = OnTable(ix, table, q)
    /\ \A w \in AllTokens :
          MatchedDocs(ix, EqQuery(w), c)
             = TableDocs(table, directional_word(w, ix.direction))

\* C25: a word query with culture c is evaluated against the orientation's word
\* table c when that table exists, otherwise against table 0, and matches
\* nothing when the orientation has no word table.
C25_QueryCultureFallback ==
    \A ix \in Indices : \A c \in QueryCultures :
        IF c < Len(ix.per_culture) THEN AnsweredFrom(ix, ix.per_culture[c + 1], c)
        ELSE IF Len(ix.per_culture) > 0 THEN AnsweredFrom(ix, ix.per_culture[1], c)
        ELSE \A q \in OneWordQueries : Index_query(ix, q, c) = <<>>

\* The forward orientation has the tables 0 and 1 with different rows: the
\* query for "a" matches doc 0 under culture 1 and nothing under culture 2,
\* which falls back to table 0; the backward orientation has no table.
C25_Witness ==
    /\ Len(forward.per_culture) = 2
    /\ Len(backward.per_culture) = 0
    /\ MatchedDocs(forward, EqQuery(<<"a">>), 1) = {0}
    /\ MatchedDocs(forward, EqQuery(<<"a">>), 2) = {}
    /\ MatchedDocs(forward, EqQuery(<<"a">>), 0) = {}

RECURSIVE SplitWhitespace(_, _, _)
\* The whitespace-separated tokens of a text from position pos, cur being
\* the token under way.
SplitWhitespace(text, pos, cur) ==
    IF pos > Len(text) THEN (IF cur = <<>> THEN <<>> ELSE <<cur>>)
    ELSE IF is_whitespace(text[pos])
    THEN (IF cur = <<>> THEN <<>> ELSE <<cur>>) \o SplitWhitespace(text, pos + 1, <<>>)
    ELSE SplitWhitespace(text, pos + 1, Append(cur, text[pos]))

RECURSIVE StripStars(_)
\* A token without its leading and trailing '*'.
StripStars(token) ==
    IF token = <<>> THEN <<>>
    ELSE IF Head(token) = "*" THEN StripStars(Tail(token))
    ELSE IF token[Len(token)] = "*" THEN StripStars(SubSeq(token, 1, Len(token) - 1))
    ELSE token

\* Case folding, character by character.
Fold(text) == [i \in 1..Len(text) |-> lower_no_accent_char(text[i])]

\* The operator the stars of a token ask for.
StarOp(token) ==
    CASE Head(token) = "*" /\ token[Len(token)] = "*" -> "Contains"
      [] Head(token) = "*" -> "EndsWith"
      [] token[Len(token)] = "*" -> "StartsWith"
      [] OTHER -> "Fuzzy"

\* One (word, operator) pair per whitespace-separated token, in input order.
TokenPairs(text) ==
    LET t == SplitWhitespace(text, 1, <<>>)
    IN  [i \in 1..Len(t) |-> <<Fold(StripStars(t[i])), StarOp(t[i])>>]

\* The (word, operator) pairs of the parsed words.
ParsedPairs(query) ==
    [i \in 1..Len(query.words) |-> <<query.words[i].word, query.words[i].op>>]

\* A run of alphanumerics with leading and trailing '*' at most.
StarredWord(token) ==
    /\ StripStars(token) # <<>>
    /\ \A i \in 1..Len(StripStars(token)) : is_alphanumeric(StripStars(token)[i])

\* Every whitespace-separated token of the text is a starred word.
StarredWords(text) ==
    LET t == SplitWhitespace(text, 1, <<>>)
    IN  \A i \in 1..Len(t) : StarredWord(t[i])

\* C26 as stated: SearchQuery::new turns each whitespace-separated token into
\* one WordQuery, in input order, whose word is the case-folded token text and
\* whose operator is StartsWith for a trailing '*', EndsWith for a leading '*',
\* Contains for both and Fuzzy for neither.
C26_EveryTokenOneWordQuery ==
    last.op = "parse" => ParsedPairs(last.query) = TokenPairs(last.text)

\* C26: for a text whose whitespace-separated tokens are runs of alphanumerics
\* with leading and trailing '*' at most, SearchQuery::new yields one Optional
\* WordQuery per token, in input order and numbered from 0, whose word is the
\* case-folded run and whose operator is StartsWith for a trailing '*',
\* EndsWith for a leading '*', Contains for both and Fuzzy for neither.
C26_StarredWordsParsed ==
    last.op = "parse" /\ StarredWords(last.text)
        => /\ ParsedPairs(last.query) = TokenPairs(last.text)
           /\ \A i \in 1..Len(last.query.words) :
                 /\ last.query.words[i].index = i - 1
                 /\ last.query.words[i].presence = "Optional"
                 /\ last.query.words[i].len = Len(last.query.words[i].word)

\* "B* *a" has been parsed into the prefix word "b" and the suffix word "a".
C26_Witness ==
    /\ last.op = "parse"
    /\ last.text = <<"B", "*", " ", "*", "a">>
    /\ StarredWords(last.text)
    /\ ParsedPairs(last.query) = << <<<<"b">>, "StartsWith">>, <<<<"a">>, "EndsWith">> >>

\* compare(lid, r, rid, r) on a Comparer that has served no comparison.
CompareFresh(lid, rid) ==
    Comparer_compare(Comparer_new, Cur, lid, last.results, rid, last.results).o

\* C27: the result of compare is a function of its arguments only, the
\* Comparer of the thread, whatever comparisons it has served, returns for two
\* docs of the results the Ordering a fresh Comparer returns for them.
C27_CompareIgnoresHistory ==
    ResultsAlive
        => \A lid \in last.results.doc_ids : \A rid \in last.results.doc_ids :
              CompareNow(lid, rid) = CompareFresh(lid, rid)

\* The words of the per-document word lists of an orientation.
ListWords(ix) ==
    UNION { UNION { Elems(ix.docs[d][a]) : a \in 1..Len(ix.docs[d]) } :
            d \in 1..Len(ix.docs) }

\* The words of the word-table rows of an orientation.
RowWords(ix) == { r.word : r \in Rows(ix) }

\* A word list or a row stores the address of the interner's string: the word
\* is owned as long as the interner holds a string of that content.
NoDangling(ix) == ListWords(ix) \cup RowWords(ix) \subseteq Elems(ix.word_intern)

\* C28: no dangling word identity, after any sequence of public calls every
\* word stored in a per-document word list or in a word-table row is a string
\* the interner of the orientation still owns.
C28_NoDanglingWord == NoDangling(forward) /\ NoDangling(backward)

\* The words document d holds in the attribute da of a tier.
EntryWords(d, da) ==
    Index_get_doc_attribute_words(direction_index(Cur, da.direction), d, da.index)

\* The match-distance score of document d for one (direction, attribute) entry
\* of a tier, computed on its own.
EntryScore(d, da) ==
    MatchDistanceScore_update(MatchDistanceScore_new,
        direction_index_results(Cur, last.results, da.direction).index_to_query,
        EntryWords(d, da))

\* The score Side::match_distance returns for document d and the entries
\* attrs_ of a tier, on the comparer c.
SideScore(c, d, attrs_) ==
    Side_match_distance(c, "left", Cur, d, last.results, attrs_).left.match_distance

\* The entries of a tier in the opposite order.
Reversed(attrs_) == [j \in 1..Len(attrs_) |-> attrs_[Len(attrs_) + 1 - j]]

\* The score is the least of the scores of the entries in which d holds words,
\* and a score without a matched query word when d holds none.
BestOfEntries(score, d, attrs_) ==
    IF \A j \in 1..Len(attrs_) : EntryWords(d, attrs_[j]) = <<>>
    THEN \A k \in 1..Len(score.recs) : score.recs[k].distance = NoDistance
    ELSE /\ \E j \in 1..Len(attrs_) :
               /\ EntryWords(d, attrs_[j]) # <<>>
               /\ MatchDistanceScore_cmp(score, EntryScore(d, attrs_[j])) = "Equal"
         /\ \A j \in 1..Len(attrs_) :
               EntryWords(d, attrs_[j]) # <<>>
                  => MatchDistanceScore_cmp(score, EntryScore(d, attrs_[j])) # "Greater"

\* C29: for a tier with several attributes, the match-distance score of a side
\* is the best, the least in the score order, of the scores of the tier's
\* (direction, attribute) entries, whatever the order of the entries and
\* whether they are forward or backward attributes.
C29_TierScoreIsBestEntry ==
    ResultsAlive
        => \A d \in last.results.doc_ids : \A t \in 1..Len(Tiers) :
              Len(Tiers[t].attrs) >= 2
                 => /\ BestOfEntries(SideScore(comparer, d, Tiers[t].attrs),
                                     d, Tiers[t].attrs)
                    /\ MatchDistanceScore_cmp(
                           SideScore(comparer, d, Tiers[t].attrs),
                           SideScore(comparer, d, Reversed(Tiers[t].attrs))) = "Equal"


\* The calls of last.adds made for the word w.
AddsFor(w) == { n \in 1..Len(last.adds) : last.adds[n].word = w }

\* (d1, i1) <= (d2, i2) in the lexicographic order of the pairs.
PairLeq(d1, i1, d2, i2) == d1 < d2 \/ (d1 = d2 /\ i1 <= i2)

\* C30: after any sequence of IndexToQuery::add calls the map holds exactly the
\* words added; the entry of each word carries the (distance, query_index) of
\* one of the adds made for the word, and no add made for the word has a
\* lexicographically smaller pair (best distance first, then the earlier query
\* word); query_len is the greatest query_index + 1 over all the adds, 0 when
\* there was none.
C30_AddKeepsBestPair ==
    last.op = "adds" =>
        /\ DOMAIN last.itq.map = { last.adds[n].word : n \in 1..Len(last.adds) }
        /\ \A w \in DOMAIN last.itq.map :
              /\ \E n \in AddsFor(w) :
                    /\ last.itq.map[w].distance = last.adds[n].distance
                    /\ last.itq.map[w].query_index = last.adds[n].query_index
              /\ \A n \in AddsFor(w) :
                    PairLeq(last.itq.map[w].distance, last.itq.map[w].query_index,
                            last.adds[n].distance, last.adds[n].query_index)
              /\ last.itq.map[w].docs = AddDocs(w)
        /\ last.itq.query_len =
              SetMax({0} \cup { last.adds[n].query_index + 1 : n \in 1..Len(last.adds) })

\* Three adds for one word: the second is nearer than the first and replaces
\* it, the third ties the second on distance and comes from a later query
\* word, so the second is kept, while query_len follows the third.
C30_Witness ==
    /\ last.op = "adds"
    /\ Len(last.adds) = 3
    /\ last.adds[1].word = last.adds[2].word
    /\ last.adds[2].word = last.adds[3].word
    /\ last.adds[2].distance < last.adds[1].distance
    /\ last.adds[2].query_index > last.adds[1].query_index
    /\ last.adds[3].distance = last.adds[2].distance
    /\ last.adds[3].query_index > last.adds[2].query_index
    /\ last.itq.map[last.adds[1].word].distance = last.adds[2].distance
    /\ last.itq.map[last.adds[1].word].query_index = last.adds[2].query_index
    /\ last.itq.query_len = last.adds[3].query_index + 1


\* The order (count descending, proximity ascending, seq descending) of two
\* scores.
ProximityOrder(l, r) ==
    IF l.count # r.count THEN cmp_int(r.count, l.count)
    ELSE IF l.proximity # r.proximity THEN cmp_int(l.proximity, r.proximity)
    ELSE cmp_int(r.seq, l.seq)

\* C31: the comparison of two proximity-sequence scores is the order (count
\* descending, proximity ascending, seq descending); with equal count and equal
\* proximity the score of the higher seq compares Less.
C31_ProximityOrdering ==
    last.op = "scored" => last.o = ProximityOrder(last.left, last.right)


\* The cultures declared by the registered attributes.
DeclaredCultures == { attrs[i].culture : i \in 1..Len(attrs) } \ {NoCulture}

\* The length claimed for a per-culture vector: 0 without a declared culture,
\* the largest declared culture + 1 otherwise.
ClaimedTables == IF DeclaredCultures = {} THEN 0 ELSE SetMax(DeclaredCultures) + 1

\* C32: after every set_attribute or remove_attr the per-culture word-table
\* vector of each orientation has length 0 when no registered attribute
\* declares a culture, and the largest declared culture + 1 otherwise.
C32_TableCountFollowsCultures ==
    last.op \in {"set_attribute", "remove_attr"} =>
        /\ Len(forward.per_culture) = ClaimedTables
        /\ Len(backward.per_culture) = ClaimedTables


\* The words of the attribute word lists of doc d in an orientation.
DocWords(ix, d) ==
    IF d < Len(ix.docs)
    THEN UNION { Elems(ix.docs[d + 1][a]) : a \in 1..Len(ix.docs[d + 1]) }
    ELSE {}

\* The words of the rows of a word table that hold doc d.
TableWords(wi, d) == { r.word : r \in { x \in Elems(wi) : d \in x.docs } }

\* Doc d is in the row of a word exactly when one of its lists holds the word,
\* in every table of the orientation; without a table it holds no word.
RowsMatchLists(ix, d) ==
    /\ \A c \in 1..Len(ix.per_culture) : TableWords(ix.per_culture[c], d) = DocWords(ix, d)
    /\ Len(ix.per_culture) = 0 => DocWords(ix, d) = {}

\* C33: in a searcher none of whose attributes declares a culture, after any
\* sequence of insert_doc_attribute, remove_doc and remove_attr the word table
\* of an orientation has doc d in the row of word w if and only if some
\* attribute word list of d in that orientation contains w.
C33_RowsIffListed ==
    (\A i \in 1..Len(attrs) : attrs[i].culture = NoCulture) =>
        \A d \in DocIds : RowsMatchLists(forward, d) /\ RowsMatchLists(backward, d)

\* A replaced value dropped two words of doc 0: "a", which another attribute
\* of the doc still holds and whose row keeps the doc, and "b", which no
\* attribute holds any more and whose row is gone.
C33_Witness ==
    /\ last.op = "insert_doc_attribute"
    /\ last.doc = 0
    /\ {"a", "b"} \subseteq Elems(Searcher_get_doc_attr_words(last.before, 0, last.name))
    /\ Searcher_get_doc_attr_words(Cur, 0, last.name) = <<>>
    /\ DocWords(forward, 0) = {"a"}
    /\ TableWords(forward.per_culture[1], 0) = {"a"}
    /\ \A r \in Elems(forward.per_culture[1]) : r.word # "b"


\* The rows of the table looked up whose word has the string looked up as a
\* prefix.
PrefixRows == { r \in Elems(last.wi) : StrStartsWith(r.word, last.word) }

\* The entries returned are the rows of PrefixRows, each once, with the row's
\* docs, in ascending word order.
ExactlyPrefixRows ==
    /\ Len(last.out) = Cardinality(PrefixRows)
    /\ { [word |-> e.word, docs |-> e.docs] : e \in Elems(last.out) } = PrefixRows
    /\ \A i \in 1..Len(last.out) : \A j \in 1..Len(last.out) :
          i < j => StrCmp(last.out[i].word, last.out[j].word) < 0

\* C34 as stated: starts_with(s) returns exactly the rows whose word has s as
\* a prefix, each once, in ascending word order, the distance of an entry
\* being the length of the row's word minus the length of s.
C34_StartsWithExactPrefixRows ==
    last.op = "starts_with" =>
        /\ ExactlyPrefixRows
        /\ \A e \in Elems(last.out) :
              e.distance = ByteLen(e.word) - ByteLen(last.word)

\* C34 with the distance of the code: starts_with(s) returns exactly the rows
\* whose word has s as a prefix, each once, in ascending word order, the
\* distance of an entry being the length in bytes of the row's word minus
\* that of s, and 255 when the difference is larger.
C34_StartsWithPrefixRowsCapped ==
    last.op = "starts_with" =>
        /\ ExactlyPrefixRows
        /\ \A e \in Elems(last.out) :
              e.distance = Min(ByteLen(e.word) - ByteLen(last.word), 255)

\* A lookup that is not a word of the table, whose insertion point is
\* inside the table, with two rows returned, the long word at the cap, and a
\* row skipped on each side.
C34_Witness ==
    /\ last.op = "starts_with"
    /\ ~WordIndex_contains_word(last.wi, last.word)
    /\ Len(last.out) = 2
    /\ Len(last.wi) = 3
    /\ last.out[1].distance = 1
    /\ last.out[2].word = LongWord
    /\ last.out[2].distance = 255


\* The entries of a backward answer with their words read forward.
ReversedEntries(out) == { [e EXCEPT !.word = Rev(e.word)] : e \in Elems(out) }

\* C35: for the operators Eq, StartsWith, EndsWith and Contains, a query on a
\* backward index returns exactly the character-reversed words, with the same
\* doc sets and distances, that the same query returns on a forward index
\* built from the same insertions.
C35_BackwardMirrorsForward ==
    last.op = "query" =>
        /\ ReversedEntries(last.bwd) = Elems(last.fwd)
        /\ Len(last.bwd) = Len(last.fwd)
        /\ Cardinality(Elems(last.fwd)) = Len(last.fwd)

\* An EndsWith query answered with two words that are not palindromes, held
\* by different doc sets at different distances.
C35_Witness ==
    /\ last.op = "query"
    /\ last.q.op = "EndsWith"
    /\ Len(last.fwd) = 2
    /\ last.fwd[1].distance # last.fwd[2].distance
    /\ last.fwd[1].docs # last.fwd[2].docs
    /\ \E e \in Elems(last.bwd) : Rev(e.word) # e.word


\* C36: a Fuzzy word query whose word has 0 to 2 characters builds no DFA and
\* returns exactly the matches of the prefix operator StartsWith for that
\* word: on the forward index the words that start with it, on the backward
\* index the stored words whose un-reversed form starts with it.
C36_ShortFuzzyIsPrefix ==
    last.op = "fuzzy" =>
        /\ last.dfa = NoDfa
        /\ last.backward_dfa = NoDfa
        /\ last.fwd = last.fwd_prefix
        /\ last.bwd = last.bwd_prefix
        /\ { e.word : e \in Elems(last.fwd) } =
               { r.word : r \in { x \in Rows(forward) : StrStartsWith(x.word, last.text) } }
        /\ { Rev(e.word) : e \in Elems(last.bwd) } =
               { Rev(r.word) : r \in { x \in Rows(backward) :
                                          StrStartsWith(Rev(x.word), last.text) } }

\* A Fuzzy query of two characters answered with two words, one of them
\* longer than the query, while another indexed word is left out.
C36_Witness ==
    /\ last.op = "fuzzy"
    /\ Len(last.text) = 2
    /\ Len(last.fwd) = 2
    /\ Len(last.bwd) = 2
    /\ \E e \in Elems(last.fwd) : e.distance > 0
    /\ Cardinality(Rows(forward)) > 2


\* The sentinels of the value tokenized that start it or follow a whitespace,
\* in order, each as a word of one character.
SpacedSentinels ==
    LET v == last.value
        F[i \in 0..Len(v)] ==
            IF i = 0 THEN <<>>
            ELSE IF v[i] \in {"#", "°"} /\ (i = 1 \/ is_whitespace(v[i - 1]))
                 THEN Append(F[i - 1], <<v[i]>>)
                 ELSE F[i - 1]
    IN  F[Len(v)]

\* The sentinel tokens of the word list, in order.
SentinelTokens ==
    LET w == last.word_list
        F[i \in 0..Len(w)] ==
            IF i = 0 THEN <<>>
            ELSE IF w[i] \in { <<"#">>, <<"°">> } THEN Append(F[i - 1], w[i])
                 ELSE F[i - 1]
    IN  F[Len(w)]

\* C37: the tokenizer emits "#" or "°" as a single-character token only when
\* the sentinel is preceded by whitespace or starts the value; a sentinel that
\* directly follows an alphabetic or numeric run, or a non-whitespace
\* separator, produces no token.
C37_SentinelOnlyAfterWhitespace ==
    last.op = "tokens" => SentinelTokens = SpacedSentinels


\* The (direction, index) pairs of the tiers of the given priority.
TierPairs(tiers, priority) ==
    { <<n, k>> \in (1..Len(tiers)) \X (1..Len(attrs)) :
          /\ tiers[n].priority = priority
          /\ k <= Len(tiers[n].attrs) }

\* Attribute a appears exactly once in the tiers, as (direction, index) in a
\* tier of its priority.
AppearsOnce(tiers, a) ==
    /\ Cardinality({ p \in TierPairs(tiers, a.priority) :
                        tiers[p[1]].attrs[p[2]] =
                            [direction |-> a.direction, index |-> a.index] }) = 1
    /\ \A n \in 1..Len(tiers) : \A k \in 1..Len(tiers[n].attrs) :
          tiers[n].attrs[k] = [direction |-> a.direction, index |-> a.index]
              => tiers[n].priority = a.priority

\* C38: the memoized tier table is never stale, attrs_priorities(c) returns
\* the tiers computed from the current attribute map: each registered
\* attribute whose culture is None or c appears exactly once, as (direction,
\* current index), in the tier of its priority, and the tiers are in strictly
\* ascending priority.
C38_TiersNeverStale ==
    last.op = "attrs_priorities" =>
        /\ ~last.panicked
        /\ \A i \in 1..Len(attrs) :
              attrs[i].culture \in {NoCulture, last.culture} => AppearsOnce(last.ret, attrs[i])
        /\ \A n \in 1..Len(last.ret) : \A m \in 1..Len(last.ret) :
              n < m => last.ret[n].priority < last.ret[m].priority

\* C39: attrs_priorities is well defined for every u8 culture: when a
\* registered attribute declares culture 255, computing max_culture + 1 does
\* not overflow 8 bits and the tier table has one entry per culture 0..=255.
C39_TierTableFitsU8 ==
    (last.op = "attrs_priorities" /\ count_overflows(Cur)) =>
        /\ ~last.panicked
        /\ Len(last.cell.table) = u8_MAX + 1

====
